---- MODULE Spec2Model ----
(***************************************************************************)
(* Model of the reference-extraction pipeline of zotero-ref-extract:       *)
(*   - src/src/extractors/docx.ts  (citation payload extraction)           *)
(*   - src/src/extractors/pdf.ts   (TEI biblStruct -> CSL record)          *)
(*   - core/normalize.ts, printed in src/README.md lines 1099-1355         *)
(*     (dedupe keys, deduplication, merge, trim, sort)                     *)
(*                                                                         *)
(* Conventions.  A JavaScript string is a sequence of one-character        *)
(* strings.  Positions are 1-based; the JavaScript result -1 ("not         *)
(* found") is the position 0.                                              *)
(***************************************************************************)
EXTENDS Integers, Sequences, FiniteSets, TLC

VARIABLES
  pc,           \* position of the modelled run
  instr,        \* DOCX: the logical instruction string of a field
  obj,          \* DOCX: the JSON object embedded in instr
  xml,          \* DOCX: the parsed XML part handed to collectInstrTexts
  jsonBlocks,   \* DOCX: extractJsonBlocks of the unsplit part
  splitBlocks,  \* DOCX: extractJsonBlocks of the part with the run split
  recA, recB,   \* keys: two CSL items
  keyA, keyB,   \* keys: generateDedupeKey of recA and of recB
  refs,         \* normalize: the ExtractedRef list given to normalizeRefs
  idx,          \* normalize: position of deduplicateItems' for loop in refs
  seenKeys,     \* normalize: the keys of the Map `seen`, in insertion order
  seenVals,     \* normalize: the values of the Map `seen`, in the same order
  duplicatesRemoved, \* normalize: deduplicateItems' counter
  origin,       \* normalize: for each ref processed, the entry of `seen` it went to
  unique,       \* normalize: the list deduplicateItems returned
  sortIn,       \* normalize: the list given to sortItems
  items,        \* normalize: the list sortItems / normalizeRefs returned
  files,        \* pipeline: the input files, in processing order
  grobidUrl,    \* pipeline: whether --pdf-via-grobid was given
  fileIdx,      \* pipeline: position of main's for loop in files
  allRefs,      \* pipeline: main's allRefs
  citeItem,     \* citation key: the CSL item given to generateCiteKey
  citeYear,     \* citation key: generateCiteKey's year
  citeKey,      \* citation key: the key generateCiteKey returned
  convItems,    \* convert: the CSL items given to convertToFormat
  convFormat,   \* convert: the output format
  convMinify,   \* convert: options.minify
  convKeys,     \* convert: the entry key of each rendered record
  convText,     \* convert: the text returned for the native format
  request,      \* batch: the run's request (app, files, grobidUrl, failOnEmpty)
  grobidAvailable,\* batch: result of the probe made before the loop
  filePos,      \* batch: position of the loop over the files
  attempted,    \* batch: the files whose extraction was started
  extracted,    \* batch: allRefs, each record named by the file it came from
  allErrors,    \* batch: the files whose extraction failed, in order
  normalized,   \* batch: the list normalizeRefs was called with, in a sequence
  pdfFile,      \* pdf: filePath of the extractFromPdf call
  probes,       \* pdf: requests sent to /api/isalive by the call
  probeStatus,  \* pdf: status the probe answered with, NoAnswer when it failed
  requests,     \* pdf: requests sent to /api/processReferences by the call
  procStatus,   \* pdf: status the processing request answered with
  procBody,     \* pdf: body of the processing response
  pdfResult,    \* pdf: what the call returned or threw
  teiBiblStructs,\* pdf: the biblStruct elements of the TEI document received
  trimIn,       \* trim: the argument of trimItem
  trimOut,      \* trim: the result of trimItem(trimIn)
  trimTwice,    \* trim: the result of trimItem(trimOut)
  xmlEntries,   \* file: the XML parts read from the archive
  entryPos,     \* file: position of the loop over xmlEntries
  docRefs,      \* file: allRefs of extractFromDocx
  hasCitations, \* file: flag of extractFromDocx
  hasWordBookmarks,\* file: flag of extractFromDocx
  hasWordBibliography,\* file: flag of extractFromDocx
  docWarnings,  \* file: warnings of extractFromDocx
  citationJson,       \* decode: the value JSON.parse gave for a citation payload
  sourceFile,   \* decode: the file the payload was read from
  decoded,      \* decode: the records parseCitationJson returned
  heap,         \* heap: the item objects, by address
  heapRefs,     \* heap: the argument of normalizeRefs, each ref holding the address of its item
  given,        \* heap: the items of the argument as they were at the call
  heapPos,      \* heap: position of the loop over refs
  seenMap,      \* heap: the Map seen, keys and addresses in insertion order
  returned,     \* heap: addresses of the items returned
  jsonText,     \* blocks: the concatenated instruction text given to extractJsonBlocks
  execIndex,    \* blocks: citationPattern.lastIndex
  blockSpans,   \* blocks: jsonStart and jsonEnd of each block pushed, in order
  engineKeys,   \* conv: the entry keys of the formatter output before postProcessBibTeX
  risItem,      \* ris: the record given to generateRisEntry
  risLines      \* ris: the lines of the entry, tag and value

docxVars == <<instr, obj, xml, jsonBlocks, splitBlocks>>
keyVars == <<recA, recB, keyA, keyB>>
normVars == <<refs, idx, seenKeys, seenVals, duplicatesRemoved, origin, unique,
              sortIn, items>>
pipeVars == <<files, grobidUrl, fileIdx, allRefs>>
citeVars == <<citeItem, citeYear, citeKey>>
convVars == <<convItems, convFormat, convMinify, convKeys, convText>>
batchVars == <<request, grobidAvailable, filePos, attempted, extracted, allErrors, normalized>>
pdfVars == <<pdfFile, probes, probeStatus, requests, procStatus, procBody, pdfResult>>
teiVars == <<teiBiblStructs>>
trimVars == <<trimIn, trimOut, trimTwice>>
fileVars == <<xmlEntries, entryPos, docRefs, hasCitations, hasWordBookmarks, hasWordBibliography, docWarnings>>
decodeVars == <<citationJson, sourceFile, decoded>>
heapVars == <<heap, heapRefs, given, heapPos, seenMap, returned>>
blockVars == <<jsonText, execIndex, blockSpans>>
engineVars == <<engineKeys>>
risVars == <<risItem, risLines>>
vars == <<pc, docxVars, keyVars, normVars, pipeVars, citeVars, convVars, batchVars, pdfVars, teiVars, trimVars, fileVars, decodeVars, heapVars, blockVars, engineVars, risVars>>

(***************************************************************************)
(* Bounds of the model.                                                    *)
(***************************************************************************)
MaxStrTokens == 2     \* characters / escapes inside one JSON string
MaxDepth == 2         \* nesting depth of the generated JSON objects
MaxDoiLen == 2        \* characters of a generated DOI
MaxRefs == 3          \* records in the list given to normalizeRefs

(***************************************************************************)
(* Characters.                                                             *)
(***************************************************************************)
Lower == <<"a","b","c","d","e","f","g","h","i","j","k","l","m",
           "n","o","p","q","r","s","t","u","v","w","x","y","z">>
Upper == <<"A","B","C","D","E","F","G","H","I","J","K","L","M",
           "N","O","P","Q","R","S","T","U","V","W","X","Y","Z">>
DigitChars == <<"0","1","2","3","4","5","6","7","8","9">>

Range(f) == { f[i] : i \in DOMAIN f }

IsLower(c) == c \in Range(Lower)
IsUpper(c) == c \in Range(Upper)
IsDigit(c) == c \in Range(DigitChars)
\* JavaScript \s and String.prototype.trim whitespace (the ASCII part)
IsSpace(c) == c \in {" ", "\t", "\n", "\r"}

\* text.startsWith(pat, i) with i 1-based
StartsWithAt(text, pat, i) ==
  /\ i >= 1
  /\ i + Len(pat) - 1 <= Len(text)
  /\ \A j \in 1..Len(pat) : text[i + j - 1] = pat[j]

\* text.indexOf(ch, from): first position >= from holding ch, 0 when none
IndexOf(text, ch, from) ==
  LET hits == { i \in from..Len(text) : text[i] = ch }
  IN  IF hits = {} THEN 0 ELSE CHOOSE i \in hits : \A j \in hits : i <= j

(***************************************************************************)
(* docx.ts: the citation marker pattern                                    *)
(*   /ADDIN (?:ZOTERO_ITEM |ZOTERO_BIBL |CSL_CITATION )/g                  *)
(***************************************************************************)
ADDIN == <<"A","D","D","I","N"," ">>
ZOTERO_ITEM == <<"Z","O","T","E","R","O","_","I","T","E","M"," ">>
ZOTERO_BIBL == <<"Z","O","T","E","R","O","_","B","I","B","L"," ">>
CSL_CITATION == <<"C","S","L","_","C","I","T","A","T","I","O","N"," ">>

citationPattern == { ADDIN \o ZOTERO_ITEM, ADDIN \o ZOTERO_BIBL, ADDIN \o CSL_CITATION }

\* length of the pattern's match at position i, 0 when it does not match
MatchLen(text, i) ==
  LET ms == { m \in citationPattern : StartsWithAt(text, m, i) }
  IN  IF ms = {} THEN 0 ELSE Len(CHOOSE m \in ms : TRUE)

\* citationPattern.exec(text) with lastIndex = from: leftmost match, 0 when none
NextMatch(text, from) ==
  LET hits == { i \in from..Len(text) : MatchLen(text, i) > 0 }
  IN  IF hits = {} THEN 0 ELSE CHOOSE i \in hits : \A j \in hits : i <= j

(***************************************************************************)
(* docx.ts findBalancedBrace: the loop body, one character per call        *)
(***************************************************************************)
RECURSIVE ScanBrace(_, _, _, _, _)
ScanBrace(text, i, depth, inString, escape) ==
  IF i > Len(text) THEN 0
  ELSE LET char == text[i] IN
    IF escape THEN ScanBrace(text, i + 1, depth, inString, FALSE)
    ELSE IF char = "\\" /\ inString THEN ScanBrace(text, i + 1, depth, inString, TRUE)
    ELSE IF char = "\"" THEN ScanBrace(text, i + 1, depth, ~inString, FALSE)
    ELSE IF inString THEN ScanBrace(text, i + 1, depth, inString, FALSE)
    ELSE IF char = "{" THEN ScanBrace(text, i + 1, depth + 1, inString, FALSE)
    ELSE IF char = "}"
      THEN IF depth - 1 = 0 THEN i
           ELSE ScanBrace(text, i + 1, depth - 1, inString, FALSE)
    ELSE ScanBrace(text, i + 1, depth, inString, FALSE)

\* mutant: a scanner that counts every brace, quoted or not
RECURSIVE ScanBraceNoStrings(_, _, _)
ScanBraceNoStrings(text, i, depth) ==
  IF i > Len(text) THEN 0
  ELSE IF text[i] = "{" THEN ScanBraceNoStrings(text, i + 1, depth + 1)
  ELSE IF text[i] = "}"
    THEN IF depth - 1 = 0 THEN i ELSE ScanBraceNoStrings(text, i + 1, depth - 1)
  ELSE ScanBraceNoStrings(text, i + 1, depth)

FindBalancedBraceNoStrings(text, start) == ScanBraceNoStrings(text, start, 0)

FindBalancedBrace(text, start) == ScanBrace(text, start, 0, FALSE, FALSE)

(***************************************************************************)
(* docx.ts extractJsonBlocks: the while loop over citationPattern.exec     *)
(***************************************************************************)
RECURSIVE ExecLoop(_, _, _)
ExecLoop(text, lastIndex, blocks) ==
  LET m == NextMatch(text, lastIndex) IN
  IF m = 0 THEN blocks
  ELSE LET startSearch == m + MatchLen(text, m)
           jsonStart == IndexOf(text, "{", startSearch)
       IN  IF jsonStart = 0 THEN ExecLoop(text, startSearch, blocks)
           ELSE LET jsonEnd == FindBalancedBrace(text, jsonStart) IN
                IF jsonEnd # 0
                  THEN ExecLoop(text, startSearch,
                                Append(blocks, SubSeq(text, jsonStart, jsonEnd)))
                  ELSE ExecLoop(text, startSearch, blocks)

ExtractJsonBlocks(text) == ExecLoop(text, 1, <<>>)

(***************************************************************************)
(* The parsed XML part.  fast-xml-parser (preserveOrder: false) gives a    *)
(* paragraph object whose "w:r" is the array of its runs; a run's          *)
(* "w:instrText" is a string, an object with "#text" (the element carries  *)
(* attributes such as xml:space), or a non-string value when the parser    *)
(* converted a purely numeric text to a number.                            *)
(***************************************************************************)
IsNumericText(s) == Len(s) > 0 /\ \A i \in 1..Len(s) : IsDigit(s[i])

\* the "w:instrText" value the parser produces for a run with text s
InstrTextNode(s, withAttrs) ==
  [kind |-> IF withAttrs THEN "object" ELSE "string",
   isString |-> ~IsNumericText(s),
   text |-> s]

\* docx.ts collectInstrTexts on one run (lines 155-165)
RunTexts(run) ==
  IF run.kind = "string"
    THEN IF run.isString THEN <<run.text>> ELSE <<>>
    ELSE IF run.isString THEN <<run.text>> ELSE <<>>

\* docx.ts collectInstrTexts: the runs of the "w:r" array in document order
RECURSIVE CollectInstrTexts(_)
CollectInstrTexts(runs) ==
  IF runs = <<>> THEN <<>>
  ELSE RunTexts(Head(runs)) \o CollectInstrTexts(Tail(runs))

\* instrTexts.join('')
RECURSIVE Join(_)
Join(texts) == IF texts = <<>> THEN <<>> ELSE Head(texts) \o Join(Tail(texts))

\* mutant: scanning each run on its own instead of the concatenation
RECURSIVE BlocksPerRun(_)
BlocksPerRun(texts) ==
  IF texts = <<>> THEN <<>>
  ELSE ExtractJsonBlocks(Head(texts)) \o BlocksPerRun(Tail(texts))

XmlJsonBlocksPerRun(runs) == BlocksPerRun(CollectInstrTexts(runs))

\* docx.ts extractCitationsFromXml, lines 122-129: collect, join, extract
XmlJsonBlocks(runs) == ExtractJsonBlocks(Join(CollectInstrTexts(runs)))

(***************************************************************************)
(* Inputs: well-formed JSON objects, built from the JSON grammar (and not  *)
(* by the scanner): a string is a quoted sequence of plain characters and  *)
(* backslash escapes, an object is {} or {"k":value}.                      *)
(***************************************************************************)
StrTokens == { <<"a">>, <<"{">>, <<"}">>, <<"\\", "\"">>, <<"\\", "\\">> }

RECURSIVE StrBodies(_)
StrBodies(n) ==
  IF n = 0 THEN { <<>> }
  ELSE StrBodies(n - 1) \cup { b \o t : b \in StrBodies(n - 1), t \in StrTokens }

Quote(b) == <<"\"">> \o b \o <<"\"">>

StringLits == { Quote(b) : b \in StrBodies(MaxStrTokens) }

RECURSIVE JsonObjects(_)
JsonObjects(d) ==
  IF d = 0 THEN { <<"{", "}">> }
  ELSE { <<"{", "}">> } \cup
       { <<"{">> \o Quote(<<"k">>) \o <<":">> \o v \o <<"}">> :
           v \in StringLits \cup { <<"1">> } \cup JsonObjects(d - 1) }

\* an instruction string: what precedes the marker, the marker, what
\* separates marker and object, and what follows the object
Frames ==
  { [lead |-> <<>>,    marker |-> ADDIN \o ZOTERO_ITEM,  gap |-> CSL_CITATION, tail |-> <<>>],
    [lead |-> <<" ">>, marker |-> ADDIN \o ZOTERO_ITEM,  gap |-> CSL_CITATION, tail |-> <<" ">>],
    [lead |-> <<" ">>, marker |-> ADDIN \o ZOTERO_BIBL,  gap |-> CSL_CITATION, tail |-> <<"}">>],
    [lead |-> <<>>,    marker |-> ADDIN \o CSL_CITATION, gap |-> <<>>,         tail |-> <<"\"", "}">>],
    [lead |-> <<"1">>, marker |-> ADDIN \o CSL_CITATION, gap |-> <<>>,         tail |-> <<" ", "1">>] }

\* Word writes xml:space="preserve" on a run whose text starts or ends with
\* white space; the parser then gives an object with "#text"
NeedsPreserve(s) == Len(s) > 0 /\ (IsSpace(s[1]) \/ IsSpace(s[Len(s)]))

(***************************************************************************)
(* Specification SpecDocx: one field's instruction string is extracted     *)
(* from a part holding it in one run, then from a part holding it split    *)
(* over two adjacent runs.                                                 *)
(***************************************************************************)
DocxIdle ==
  /\ instr = <<>> /\ obj = <<>> /\ xml = <<>>
  /\ jsonBlocks = <<>> /\ splitBlocks = <<>>

KeyIdle ==
  /\ recA = <<>> /\ recB = <<>> /\ keyA = <<>> /\ keyB = <<>>

NormIdle ==
  /\ refs = <<>> /\ idx = 0 /\ seenKeys = <<>> /\ seenVals = <<>>
  /\ duplicatesRemoved = 0 /\ origin = <<>> /\ unique = <<>>
  /\ sortIn = <<>> /\ items = <<>>

CiteIdle ==
  /\ citeItem = <<>> /\ citeYear = <<>> /\ citeKey = <<>>

ConvIdle ==
  /\ convItems = <<>> /\ convFormat = <<>> /\ convMinify = <<>> /\ convKeys = <<>> /\ convText = <<>>

BatchIdle ==
  /\ request = <<>> /\ grobidAvailable = <<>> /\ filePos = <<>> /\ attempted = <<>> /\ extracted = <<>> /\ allErrors = <<>> /\ normalized = <<>>

PdfIdle ==
  /\ pdfFile = <<>> /\ probes = <<>> /\ probeStatus = <<>> /\ requests = <<>> /\ procStatus = <<>> /\ procBody = <<>> /\ pdfResult = <<>>

TeiIdle ==
  /\ teiBiblStructs = <<>>

TrimIdle ==
  /\ trimIn = <<>> /\ trimOut = <<>> /\ trimTwice = <<>>

FileIdle ==
  /\ xmlEntries = <<>> /\ entryPos = <<>> /\ docRefs = <<>> /\ hasCitations = <<>> /\ hasWordBookmarks = <<>> /\ hasWordBibliography = <<>> /\ docWarnings = <<>>

DecodeIdle ==
  /\ citationJson = <<>> /\ sourceFile = <<>> /\ decoded = <<>>

HeapIdle ==
  /\ heap = <<>> /\ heapRefs = <<>> /\ given = <<>> /\ heapPos = <<>> /\ seenMap = <<>> /\ returned = <<>>

BlockIdle ==
  /\ jsonText = <<>> /\ execIndex = <<>> /\ blockSpans = <<>>

EngineIdle ==
  /\ engineKeys = <<>>

RisIdle ==
  /\ risItem = <<>> /\ risLines = <<>>

PipeIdle ==
  /\ files = <<>> /\ grobidUrl = FALSE /\ fileIdx = 0 /\ allRefs = <<>>

InitDocx ==
  /\ pc = "part"
  /\ RisIdle
  /\ EngineIdle
  /\ BlockIdle
  /\ HeapIdle
  /\ DecodeIdle
  /\ FileIdle
  /\ TrimIdle
  /\ TeiIdle
  /\ PdfIdle
  /\ BatchIdle
  /\ ConvIdle
  /\ CiteIdle
  /\ KeyIdle
  /\ NormIdle
  /\ PipeIdle
  /\ obj \in JsonObjects(MaxDepth)
  /\ \E f \in Frames : instr = f.lead \o f.marker \o f.gap \o obj \o f.tail
  /\ xml = <<>>
  /\ jsonBlocks = <<>>
  /\ splitBlocks = <<>>

\* extractCitationsFromXml on the part whose field is a single run
ExtractUnsplit ==
  /\ pc = "part"
  /\ xml' = << InstrTextNode(instr, NeedsPreserve(instr)) >>
  /\ jsonBlocks' = XmlJsonBlocks(xml')
  /\ pc' = "unsplit"
  /\ UNCHANGED <<risVars, engineVars, blockVars, heapVars, decodeVars, fileVars, trimVars, teiVars, pdfVars, batchVars, convVars, citeVars, instr, obj, splitBlocks, keyVars, normVars, pipeVars>>

\* extractCitationsFromXml on the part whose field is split at position k
ExtractSplit ==
  /\ pc = "unsplit"
  /\ \E k \in 0..Len(instr) :
       LET s1 == SubSeq(instr, 1, k)
           s2 == SubSeq(instr, k + 1, Len(instr))
       IN  /\ xml' = << InstrTextNode(s1, NeedsPreserve(s1)),
                        InstrTextNode(s2, NeedsPreserve(s2)) >>
           /\ splitBlocks' = XmlJsonBlocks(xml')
  /\ pc' = "split"
  /\ UNCHANGED <<risVars, engineVars, blockVars, heapVars, decodeVars, fileVars, trimVars, teiVars, pdfVars, batchVars, convVars, citeVars, instr, obj, jsonBlocks, keyVars, normVars, pipeVars>>

NextDocx == ExtractUnsplit \/ ExtractSplit

SpecDocx == InitDocx /\ [][NextDocx]_vars

\* position of the object's opening brace in instr
ObjStart == CHOOSE i \in 1..Len(instr) :
              /\ SubSeq(instr, i, i + Len(obj) - 1) = obj
              /\ \A j \in 1..(i - 1) : instr[j] # "{"

\* C1: for an instruction text whose marker is followed by a well-formed
\* JSON object, the brace scanner started at the first "{" after the marker
\* stops at the "}" closing it, and the extracted block is the exact object,
\* whatever braces and escapes its string values hold.
C1_ExactObject ==
  pc # "part" =>
    /\ FindBalancedBrace(instr, ObjStart) = ObjStart + Len(obj) - 1
    /\ jsonBlocks = << obj >>

\* witness of C1: an object with a string value holding a literal "}" was
\* extracted whole
C1_Witness ==
  /\ pc = "unsplit"
  /\ obj = <<"{">> \o Quote(<<"k">>) \o <<":">> \o Quote(<<"}", "a">>) \o <<"}">>
  /\ jsonBlocks = << obj >>

\* C2: extraction from the two runs s[0..k) and s[k..) gives the same list
\* of JSON blocks as extraction from the unsplit run s, for every k.
C2_SplitRun ==
  pc = "split" => splitBlocks = jsonBlocks

\* witness of C2: the split falls inside the marker token and runs exist on
\* both sides
C2_Witness ==
  /\ pc = "split"
  /\ Len(xml) = 2
  /\ Len(xml[1].text) > 0
  /\ Len(xml[1].text) < Len(ADDIN)
  /\ splitBlocks = << obj >>
  /\ Len(obj) > 2

(***************************************************************************)
(* CSL items.  An item is a function from the names of its own properties  *)
(* to JavaScript values; a value is a record of one shape:                 *)
(*   t = "str"     the string s                                            *)
(*   t = "num"     the number n                                            *)
(*   t = "null"    null            t = "undef"   undefined                 *)
(*   t = "names"   the array a of name objects (functions from the names   *)
(*                 of their properties to strings)                         *)
(*   t = "date"    a CSL date: n is the number date-parts[0][0] (0 when    *)
(*                 date-parts is missing or empty), s is literal ("" when  *)
(*                 missing)                                                *)
(*   t = "datestr" a CSL date whose date-parts[0][0] is the string s       *)
(***************************************************************************)
Undef == [t |-> "undef", s |-> <<>>, n |-> 0, a |-> <<>>]
Null == [t |-> "null", s |-> <<>>, n |-> 0, a |-> <<>>]
Str(x) == [t |-> "str", s |-> x, n |-> 0, a |-> <<>>]
Num(k) == [t |-> "num", s |-> <<>>, n |-> k, a |-> <<>>]
Names(arr) == [t |-> "names", s |-> <<>>, n |-> 0, a |-> arr]
Date(year, lit) == [t |-> "date", s |-> lit, n |-> year, a |-> <<>>]
DateStr(year) == [t |-> "datestr", s |-> year, n |-> 0, a |-> <<>>]
\* an array whose elements are values that are no name objects
Array(arr) == [t |-> "array", s |-> <<>>, n |-> 0, a |-> arr]

\* the object literal holding the defined properties of full
MkItem(full) == [k \in { f \in DOMAIN full : full[f].t # "undef" } |-> full[k]]

\* item[k], undefined when the item has no such property
Get(item, k) == IF k \in DOMAIN item THEN item[k] ELSE Undef

\* JavaScript truthiness
Truthy(v) ==
  CASE v.t = "str" -> v.s # <<>>
    [] v.t = "num" -> v.n # 0
    [] v.t = "datestr" -> TRUE
    [] v.t = "date" -> TRUE
    [] v.t = "names" -> TRUE
    [] v.t = "array" -> TRUE
    [] OTHER -> FALSE

SetMin(S) == CHOOSE x \in S : \A y \in S : x <= y
SetMax(S) == CHOOSE x \in S : \A y \in S : x >= y

(***************************************************************************)
(* String methods used by normalize.ts                                     *)
(***************************************************************************)
LowerOf(c) == IF IsUpper(c) THEN Lower[CHOOSE i \in 1..26 : Upper[i] = c] ELSE c
UpperOf(c) == IF IsLower(c) THEN Upper[CHOOSE i \in 1..26 : Lower[i] = c] ELSE c

ToLowerCase(s) == [i \in 1..Len(s) |-> LowerOf(s[i])]
ToUpperCase(s) == [i \in 1..Len(s) |-> UpperOf(s[i])]

\* String.prototype.trim
Trim(s) ==
  LET keep == { i \in 1..Len(s) : ~IsSpace(s[i]) }
  IN  IF keep = {} THEN <<>> ELSE SubSeq(s, SetMin(keep), SetMax(keep))

\* s.replace(/\/+$/, '')
StripTrailingSlashes(s) ==
  LET keep == { i \in 1..Len(s) : s[i] # "/" }
  IN  IF keep = {} THEN <<>> ELSE SubSeq(s, 1, SetMax(keep))

\* s.replace(/^p/, '') for a literal p
StripPrefix(s, p) ==
  IF StartsWithAt(s, p, 1) THEN SubSeq(s, Len(p) + 1, Len(s)) ELSE s

IsLowerAlnum(c) == IsLower(c) \/ IsDigit(c)

\* s.split(/\s+/)[0]
FirstWord(s) ==
  LET sp == { i \in 1..Len(s) : IsSpace(s[i]) }
  IN  IF sp = {} THEN s ELSE SubSeq(s, 1, SetMin(sp) - 1)

\* String(n) for a natural number n
RECURSIVE NumToStr(_)
NumToStr(n) ==
  IF n < 10 THEN << DigitChars[n + 1] >>
  ELSE NumToStr(n \div 10) \o << DigitChars[(n % 10) + 1] >>

\* s.match(/\d{4}/): the first four consecutive digits, <<>> when none
MatchFourDigits(s) ==
  LET hits == { i \in 1..(Len(s) - 3) : \A j \in 0..3 : IsDigit(s[i + j]) }
  IN  IF hits = {} THEN <<>> ELSE SubSeq(s, SetMin(hits), SetMin(hits) + 3)

(***************************************************************************)
(* normalize.ts: dedupe keys (README.md 1106-1183)                         *)
(***************************************************************************)
HTTP == <<"h","t","t","p">>
DOI_ORG == <<"d","o","i",".","o","r","g","/">>
\* the alternatives of /^https?:\/\/(dx\.)?doi\.org\//
DoiUrlPrefixes ==
  { HTTP \o sec \o <<":","/","/">> \o dx \o DOI_ORG :
      sec \in { <<>>, <<"s">> }, dx \in { <<>>, <<"d","x",".">> } }
DOI_SCHEME == <<"d","o","i",":">>
URL_SCHEME == <<"u","r","l",":">>
KEY_SCHEME == <<"k","e","y",":">>
UNKNOWN == <<"u","n","k","n","o","w","n">>
TitleKeyLen == 100

\* doi.replace(/^https?:\/\/(dx\.)?doi\.org\//, '')
StripDoiUrl(s) ==
  LET ms == { p \in DoiUrlPrefixes : StartsWithAt(s, p, 1) }
  IN  IF ms = {} THEN s ELSE StripPrefix(s, CHOOSE p \in ms : TRUE)

\* mutant: the DOI is not lowercased
NormalizeDoiKeepCase(doi) == Trim(StripPrefix(StripDoiUrl(doi), DOI_SCHEME))

NormalizeDoi(doi) == Trim(StripPrefix(StripDoiUrl(ToLowerCase(doi)), DOI_SCHEME))

NormalizeUrl(url) == Trim(StripTrailingSlashes(ToLowerCase(url)))

NormalizeTitle(title) ==
  LET kept == SelectSeq(ToLowerCase(title), IsLowerAlnum)
  IN  IF Len(kept) > TitleKeyLen THEN SubSeq(kept, 1, TitleKeyLen) ELSE kept

\* item.title || ''
TitleOrEmpty(item) ==
  IF Truthy(Get(item, "title")) THEN Get(item, "title").s ELSE <<>>

ExtractYear(item) ==
  LET issued == Get(item, "issued") IN
  IF issued.t = "datestr" /\ issued.s # <<>> THEN issued.s
  ELSE IF issued.t = "date" /\ issued.n # 0 THEN NumToStr(issued.n)
  ELSE IF issued.t = "date" /\ issued.s # <<>> /\ MatchFourDigits(issued.s) # <<>>
    THEN MatchFourDigits(issued.s)
  ELSE UNKNOWN

\* name[k], "" when the name has no such property (both are falsy)
NameGet(name, k) == IF k \in DOMAIN name THEN name[k] ELSE <<>>

GetFirstAuthorFamily(item) ==
  LET author == Get(item, "author") IN
  IF author.t = "names" /\ Len(author.a) > 0
    THEN LET first == author.a[1] IN
         IF NameGet(first, "family") # <<>>
           THEN SelectSeq(ToLowerCase(NameGet(first, "family")), IsLower)
         ELSE IF NameGet(first, "literal") # <<>>
           THEN SelectSeq(ToLowerCase(FirstWord(NameGet(first, "literal"))), IsLower)
         ELSE UNKNOWN
    ELSE UNKNOWN

CompositeKey(item) ==
  KEY_SCHEME \o GetFirstAuthorFamily(item) \o <<"|">> \o ExtractYear(item)
             \o <<"|">> \o NormalizeTitle(TitleOrEmpty(item))

\* mutant: the URL is preferred to the DOI
GenerateDedupeKeyUrlFirst(item) ==
  IF Truthy(Get(item, "URL")) THEN URL_SCHEME \o NormalizeUrl(Get(item, "URL").s)
  ELSE IF Truthy(Get(item, "DOI")) THEN DOI_SCHEME \o NormalizeDoi(Get(item, "DOI").s)
  ELSE CompositeKey(item)

GenerateDedupeKey(item) ==
  IF Truthy(Get(item, "DOI")) THEN DOI_SCHEME \o NormalizeDoi(Get(item, "DOI").s)
  ELSE IF Truthy(Get(item, "URL")) THEN URL_SCHEME \o NormalizeUrl(Get(item, "URL").s)
  ELSE CompositeKey(item)

(***************************************************************************)
(* Specification SpecKey: generateDedupeKey applied to two items.          *)
(* The first item has a generated DOI (any characters of DoiAlphabet, bare *)
(* or behind the resolver prefix), no DOI or an empty one; the second has  *)
(* a case or prefix variant of that DOI, or none, and any other fields.    *)
(***************************************************************************)
HTTPS_DOI_ORG == HTTP \o <<"s",":","/","/">> \o DOI_ORG

DoiAlphabet == { "1", "/", "a", "A", " " }

RECURSIVE DoiBodies(_)
DoiBodies(n) ==
  IF n = 0 THEN { <<>> }
  ELSE DoiBodies(n - 1) \cup { b \o <<c>> : b \in DoiBodies(n - 1), c \in DoiAlphabet }

KeyDois ==
  LET bodies == DoiBodies(MaxDoiLen) \ { <<>> }
  IN  bodies \cup { HTTPS_DOI_ORG \o b : b \in bodies }

Doe == [family |-> <<"D","o","e">>, given |-> <<"J">>]
ArticleType == Str(<<"a","r","t","i","c","l","e","-","j","o","u","r","n","a","l">>)

\* the fields of an item other than its DOI
KeyRests ==
  { [type |-> ArticleType, URL |-> Undef, title |-> Undef, author |-> Undef,
     issued |-> Undef],
    [type |-> ArticleType, URL |-> Str(<<"h","t","t","p",":","/","/","e","/">>),
     title |-> Str(<<"T","!">>), author |-> Undef, issued |-> Undef],
    [type |-> ArticleType, URL |-> Str(<<"H","T","T","P",":","/","/","E">>),
     title |-> Undef, author |-> Names(<<Doe>>), issued |-> Date(2020, <<>>)],
    [type |-> ArticleType, URL |-> Str(<<>>), title |-> Str(<<"T","!">>),
     author |-> Names(<<Doe>>), issued |-> Date(2020, <<>>)],
    [type |-> ArticleType, URL |-> Str(<<"h","t","t","p",":","/","/","e","/"," ">>),
     title |-> Undef, author |-> Undef, issued |-> Undef] }

WithDoi(rest, doi) ==
  MkItem([type |-> rest.type, URL |-> rest.URL, title |-> rest.title,
          author |-> rest.author, issued |-> rest.issued, DOI |-> doi])

\* the DOIs a second record may carry, given the first record's
DoiVariants(doi) ==
  IF doi.t # "str" THEN { doi, Str(<<"1">>) }
  ELSE { doi, Undef, Str(ToUpperCase(doi.s)), Str(ToLowerCase(doi.s)),
         Str(HTTPS_DOI_ORG \o doi.s), Str(ToUpperCase(HTTPS_DOI_ORG \o doi.s)) }

InitKey ==
  /\ pc = "items"
  /\ RisIdle
  /\ EngineIdle
  /\ BlockIdle
  /\ HeapIdle
  /\ DecodeIdle
  /\ FileIdle
  /\ TrimIdle
  /\ TeiIdle
  /\ PdfIdle
  /\ BatchIdle
  /\ ConvIdle
  /\ CiteIdle
  /\ DocxIdle
  /\ NormIdle
  /\ PipeIdle
  /\ \E ra \in KeyRests, rb \in KeyRests,
        da \in { Undef, Str(<<>>) } \cup { Str(d) : d \in KeyDois } :
       \E db \in DoiVariants(da) :
         /\ recA = WithDoi(ra, da)
         /\ recB = WithDoi(rb, db)
  /\ keyA = <<>>
  /\ keyB = <<>>

\* generateDedupeKey(recA) and generateDedupeKey(recB)
GenerateKeys ==
  /\ pc = "items"
  /\ keyA' = GenerateDedupeKey(recA)
  /\ keyB' = GenerateDedupeKey(recB)
  /\ pc' = "keyed"
  /\ UNCHANGED <<risVars, engineVars, blockVars, heapVars, decodeVars, fileVars, trimVars, teiVars, pdfVars, batchVars, convVars, citeVars, recA, recB, docxVars, normVars, pipeVars>>

NextKey == GenerateKeys

SpecKey == InitKey /\ [][NextKey]_vars

\* the two strings are equal up to the case of their letters
SameUpToCase(d1, d2) ==
  Len(d1) = Len(d2) /\ \A i \in 1..Len(d1) : LowerOf(d1[i]) = LowerOf(d2[i])

HasResolverPrefix(d) == StartsWithAt(ToLowerCase(d), HTTPS_DOI_ORG, 1)

\* d2 is d1, or d1 behind https://doi.org/, in any letter case
CaseOrPrefixVariant(d1, d2) ==
  \/ SameUpToCase(d1, d2)
  \/ ~HasResolverPrefix(d1) /\ SameUpToCase(HTTPS_DOI_ORG \o d1, d2)

DiffersOnlyInDoi(a, b) ==
  /\ DOMAIN a = DOMAIN b
  /\ "DOI" \in DOMAIN a
  /\ a["DOI"].t = "str" /\ b["DOI"].t = "str"
  /\ a["DOI"].s # <<>> /\ b["DOI"].s # <<>>
  /\ \A k \in DOMAIN a \ {"DOI"} : a[k] = b[k]

\* C4: generateDedupeKey gives equal records equal keys, and gives equal
\* keys to two records that differ only in the letter case of the DOI or
\* in a https://doi.org/ prefix on it.
C4_DoiCaseAndPrefix ==
  pc = "keyed" =>
    /\ recA = recB => keyA = keyB
    /\ ( /\ DiffersOnlyInDoi(recA, recB)
         /\ \/ CaseOrPrefixVariant(recA["DOI"].s, recB["DOI"].s)
            \/ CaseOrPrefixVariant(recB["DOI"].s, recA["DOI"].s) )
       => keyA = keyB

\* witness of C4: a bare mixed-case DOI and its upper-cased, prefixed form
\* were keyed alike
C4_Witness ==
  /\ pc = "keyed"
  /\ DiffersOnlyInDoi(recA, recB)
  /\ recA["DOI"].s = <<"a", "A">>
  /\ recB["DOI"].s = ToUpperCase(HTTPS_DOI_ORG \o <<"a", "A">>)
  /\ keyA = keyB

HasDoi(item) == Truthy(Get(item, "DOI"))
HasUrl(item) == Truthy(Get(item, "URL"))

IsLowerCased(s) == \A i \in 1..Len(s) : ~IsUpper(s[i])

KeyFollowsPriority(item, key) ==
  /\ HasDoi(item) =>
       /\ key = DOI_SCHEME \o NormalizeDoi(item["DOI"].s)
       /\ ~StartsWithAt(key, URL_SCHEME, 1)
  /\ (~HasDoi(item) /\ HasUrl(item)) =>
       /\ key = URL_SCHEME \o NormalizeUrl(item["URL"].s)
       /\ IsLowerCased(key)
       /\ item["URL"].s[Len(item["URL"].s)] = "/" => key[Len(key)] # "/"
  /\ (~HasDoi(item) /\ ~HasUrl(item)) =>
       key = KEY_SCHEME \o GetFirstAuthorFamily(item) \o <<"|">> \o ExtractYear(item)
                        \o <<"|">> \o NormalizeTitle(TitleOrEmpty(item))

\* C5: the dedupe key is the normalized DOI when the record has a DOI,
\* whatever its other fields; else the normalized URL (lowercased, trailing
\* slashes stripped) when it has a URL; else author|year|title.  Two records
\* with the same DOI get the same key even when their URLs differ, and a
\* record with a DOI never gets the key of a URL-only record.
C5_KeyPriority ==
  pc = "keyed" =>
    /\ KeyFollowsPriority(recA, keyA)
    /\ KeyFollowsPriority(recB, keyB)
    /\ (HasDoi(recA) /\ HasDoi(recB) /\ recA["DOI"] = recB["DOI"]) => keyA = keyB
    /\ (HasDoi(recA) /\ ~HasDoi(recB)) => keyA # keyB

\* witness of C5: two records share a DOI and have different URLs, titles
\* and authors
C5_Witness ==
  /\ pc = "keyed"
  /\ HasDoi(recA) /\ HasDoi(recB) /\ recA["DOI"] = recB["DOI"]
  /\ HasUrl(recA) /\ HasUrl(recB)
  /\ NormalizeUrl(recA["URL"].s) = NormalizeUrl(recB["URL"].s)
  /\ recA["URL"] # recB["URL"]
  /\ Get(recA, "title") # Get(recB, "title")
  /\ keyA = keyB
  /\ StartsWithAt(keyA, DOI_SCHEME, 1)

(***************************************************************************)
(* normalize.ts: mergeItems, trimItem, sortItems (README.md 1188-1296)     *)
(***************************************************************************)
\* value === undefined || value === null || value === ''
IsEmptyValue(v) == v.t \in {"undef", "null"} \/ (v.t = "str" /\ v.s = <<>>)

\* the own properties of source that mergeItems assigns to target
MergedKeys(target, source) ==
  { k \in DOMAIN source : ~IsEmptyValue(source[k]) /\ IsEmptyValue(Get(target, k)) }

\* mutant: a merge that overwrites the target with every non-empty value
MergeItemsOverwrite(target, source) ==
  [k \in DOMAIN target \cup { f \in DOMAIN source : ~IsEmptyValue(source[f]) } |->
     IF k \in DOMAIN source /\ ~IsEmptyValue(source[k]) THEN source[k] ELSE target[k]]

\* mergeItems(target, source): the target after the call
MergeItems(target, source) ==
  [k \in DOMAIN target \cup MergedKeys(target, source) |->
     IF k \in MergedKeys(target, source) THEN source[k] ELSE target[k]]

\* mutant: a Map whose has() never answers true
KeyPosNever(keys, key) == 0

\* mutant: the duplicate is not counted
CountUnchanged(count) == count

\* duplicatesRemoved++
CountDuplicate(count) == count + 1

\* position of key in the Map's keys, 0 when !seen.has(key)
KeyPos(keys, key) ==
  LET hits == { i \in 1..Len(keys) : keys[i] = key }
  IN  IF hits = {} THEN 0 ELSE SetMin(hits)

\* the Map `seen` (keys and values in insertion order), the counter, and
\* for each record processed the entry it went to
EmptySeen == [keys |-> <<>>, vals |-> <<>>, dup |-> 0, origin |-> <<>>]

\* deduplicateItems, loop body when !seen.has(key):
\* seen.set(key, { ...ref.item })
SeenSet(st, item) ==
  [keys |-> Append(st.keys, GenerateDedupeKey(item)),
   vals |-> Append(st.vals, item),
   dup |-> st.dup,
   origin |-> Append(st.origin, Len(st.keys) + 1)]

\* deduplicateItems, loop body when seen.has(key): count, then
\* mergeItems(seen.get(key), ref.item)
SeenMerge(st, item) ==
  LET pos == KeyPos(st.keys, GenerateDedupeKey(item)) IN
  [keys |-> st.keys,
   vals |-> [st.vals EXCEPT ![pos] = MergeItems(@, item)],
   dup |-> CountDuplicate(st.dup),
   origin |-> Append(st.origin, pos)]

RECURSIVE DedupeLoop(_, _)
DedupeLoop(list, st) ==
  IF list = <<>> THEN st
  ELSE DedupeLoop(Tail(list),
                  IF KeyPos(st.keys, GenerateDedupeKey(Head(list).item)) = 0
                    THEN SeenSet(st, Head(list).item)
                    ELSE SeenMerge(st, Head(list).item))

\* deduplicateItems(list)
DeduplicateItems(list) ==
  LET st == DedupeLoop(list, EmptySeen)
  IN  [unique |-> st.vals, duplicatesRemoved |-> st.dup]

TrimName(name) == [k \in DOMAIN name |-> Trim(name[k])]

TrimItem(item) ==
  [k \in DOMAIN item |->
     IF item[k].t = "str" THEN Str(Trim(item[k].s))
     ELSE IF item[k].t = "names"
       THEN Names([i \in 1..Len(item[k].a) |-> TrimName(item[k].a[i])])
     ELSE item[k]]

\* rank of a character in the collation order: digits before letters
CharRank(c) ==
  IF IsDigit(c) THEN CHOOSE i \in 1..10 : DigitChars[i] = c
  ELSE IF IsLower(c) THEN 10 + (CHOOSE i \in 1..26 : Lower[i] = c)
  ELSE 0

\* x.localeCompare(y) for strings of digits and lowercase letters
RECURSIVE LocaleCompare(_, _)
LocaleCompare(x, y) ==
  IF x = <<>> THEN (IF y = <<>> THEN 0 ELSE -1)
  ELSE IF y = <<>> THEN 1
  ELSE IF CharRank(Head(x)) < CharRank(Head(y)) THEN -1
  ELSE IF CharRank(Head(x)) > CharRank(Head(y)) THEN 1
  ELSE LocaleCompare(Tail(x), Tail(y))

\* mutant: a comparator that never looks at the year
CompareItemsNoYear(a, b) ==
  IF GetFirstAuthorFamily(a) # GetFirstAuthorFamily(b)
    THEN LocaleCompare(GetFirstAuthorFamily(a), GetFirstAuthorFamily(b))
  ELSE LocaleCompare(NormalizeTitle(TitleOrEmpty(a)), NormalizeTitle(TitleOrEmpty(b)))

\* the comparator of sortItems
CompareItems(a, b) ==
  IF GetFirstAuthorFamily(a) # GetFirstAuthorFamily(b)
    THEN LocaleCompare(GetFirstAuthorFamily(a), GetFirstAuthorFamily(b))
  ELSE IF ExtractYear(a) # ExtractYear(b)
    THEN LocaleCompare(ExtractYear(a), ExtractYear(b))
  ELSE LocaleCompare(NormalizeTitle(TitleOrEmpty(a)), NormalizeTitle(TitleOrEmpty(b)))

\* mutant: an insertion that puts x before the entries it ties with
RECURSIVE InsertBeforeTies(_, _)
InsertBeforeTies(x, sorted) ==
  IF sorted = <<>> THEN << x >>
  ELSE IF CompareItems(Head(sorted), x) >= 0 THEN << x >> \o sorted
  ELSE << Head(sorted) >> \o InsertBeforeTies(x, Tail(sorted))

\* Array.prototype.sort is stable: x goes behind every entry it does not
\* precede
RECURSIVE InsertSorted(_, _)
InsertSorted(x, sorted) ==
  IF sorted = <<>> THEN << x >>
  ELSE IF CompareItems(Head(sorted), x) > 0 THEN << x >> \o sorted
  ELSE << Head(sorted) >> \o InsertSorted(x, Tail(sorted))

RECURSIVE SortInto(_, _)
SortInto(list, sorted) ==
  IF list = <<>> THEN sorted
  ELSE SortInto(Tail(list), InsertSorted(Head(list), sorted))

\* sortItems(list): [...list].sort(comparator)
SortItems(list) == SortInto(list, <<>>)

\* normalizeRefs(list)
NormalizeRefs(list) ==
  LET d == DeduplicateItems(list)
  IN  [items |-> SortItems([i \in 1..Len(d.unique) |-> TrimItem(d.unique[i])]),
       duplicatesRemoved |-> d.duplicatesRemoved]

(***************************************************************************)
(* Specification SpecNorm: normalizeRefs on a list of extracted records,   *)
(* deduplicateItems' loop one record at a time; and sortItems on its own.  *)
(***************************************************************************)
S_Doe == <<"D","o","e">>
WebType == Str(<<"w","e","b">>)
BookType == Str(<<"b","o","o","k">>)

NormItems ==
  << \* 1: a DOI record
     [type |-> ArticleType, title |-> Str(<<"A","r","t">>),
      DOI |-> Str(<<"1","/","X">>)],
     \* 2: the same DOI behind the resolver prefix, another title, more fields
     [type |-> ArticleType, title |-> Str(<<"V","a","r"," ">>),
      DOI |-> Str(HTTPS_DOI_ORG \o <<"1","/","x">>), volume |-> Str(<<"4">>),
      URL |-> Str(<<"h","t","t","p",":","/","/","e","/">>)],
     \* 3: a URL record with an empty title and an empty DOI
     [type |-> WebType, title |-> Str(<<>>), DOI |-> Str(<<>>),
      URL |-> Str(<<"H","T","T","P",":","/","/","E","/">>)],
     \* 4: the same URL, a title, a null volume, an author
     [type |-> WebType, title |-> Str(<<"P","g">>), volume |-> Null,
      URL |-> Str(<<"h","t","t","p",":","/","/","e">>),
      author |-> Names(<< [family |-> S_Doe] >>)],
     \* 5: a record keyed by author, year and title
     [type |-> BookType, title |-> Str(<<"T","h","e"," ","B","!">>),
      author |-> Names(<< [family |-> <<" ">> \o S_Doe] >>), issued |-> Date(2020, <<>>)],
     \* 6: the same author, year and title in another rendering
     [type |-> BookType, title |-> Str(<<"t","h","e","b">>),
      author |-> Names(<< [family |-> ToUpperCase(S_Doe), given |-> <<"J"," ">>] >>),
      issued |-> DateStr(<<"2","0","2","0">>), volume |-> Str(<<"7">>)],
     \* 7: no author, a literal date
     [type |-> BookType, title |-> Str(<<"Z","e","d">>),
      issued |-> Date(0, <<"c","."," ","1","9","9","9">>)],
     \* 8: the sort keys of record 1, another DOI
     [type |-> ArticleType, title |-> Str(<<"A","R","T","!">>),
      DOI |-> Str(<<"1","/","y">>)] >>

RefLists == UNION { [1..n -> Range(NormItems)] : n \in 0..MaxRefs }

InitNorm ==
  /\ pc = "dedupe"
  /\ RisIdle
  /\ EngineIdle
  /\ BlockIdle
  /\ HeapIdle
  /\ DecodeIdle
  /\ FileIdle
  /\ TrimIdle
  /\ TeiIdle
  /\ PdfIdle
  /\ BatchIdle
  /\ ConvIdle
  /\ CiteIdle
  /\ DocxIdle
  /\ KeyIdle
  /\ PipeIdle
  /\ \E l \in RefLists :
       refs = [i \in 1..Len(l) |-> [item |-> l[i], source |-> "docx-citation"]]
  /\ idx = 1
  /\ seenKeys = <<>>
  /\ seenVals = <<>>
  /\ duplicatesRemoved = 0
  /\ origin = <<>>
  /\ unique = <<>>
  /\ sortIn = <<>>
  /\ items = <<>>

SeenNow == [keys |-> seenKeys, vals |-> seenVals, dup |-> duplicatesRemoved,
            origin |-> origin]

\* deduplicateItems, loop body, !seen.has(key)
DedupeFirstSeen ==
  /\ pc = "dedupe"
  /\ idx <= Len(refs)
  /\ KeyPos(seenKeys, GenerateDedupeKey(refs[idx].item)) = 0
  /\ LET st == SeenSet(SeenNow, refs[idx].item) IN
       /\ seenKeys' = st.keys
       /\ seenVals' = st.vals
       /\ duplicatesRemoved' = st.dup
       /\ origin' = st.origin
  /\ idx' = idx + 1
  /\ UNCHANGED <<risVars, engineVars, blockVars, heapVars, decodeVars, fileVars, trimVars, teiVars, pdfVars, batchVars, convVars, citeVars, pc, refs, unique, sortIn, items, docxVars, keyVars, pipeVars>>

\* deduplicateItems, loop body, seen.has(key)
DedupeDuplicate ==
  /\ pc = "dedupe"
  /\ idx <= Len(refs)
  /\ KeyPos(seenKeys, GenerateDedupeKey(refs[idx].item)) # 0
  /\ LET st == SeenMerge(SeenNow, refs[idx].item) IN
       /\ seenKeys' = st.keys
       /\ seenVals' = st.vals
       /\ duplicatesRemoved' = st.dup
       /\ origin' = st.origin
  /\ idx' = idx + 1
  /\ UNCHANGED <<risVars, engineVars, blockVars, heapVars, decodeVars, fileVars, trimVars, teiVars, pdfVars, batchVars, convVars, citeVars, pc, refs, unique, sortIn, items, docxVars, keyVars, pipeVars>>

\* deduplicateItems returns { unique: Array.from(seen.values()), duplicatesRemoved }
DedupeReturn ==
  /\ pc = "dedupe"
  /\ idx > Len(refs)
  /\ unique' = seenVals
  /\ pc' = "trim"
  /\ UNCHANGED <<risVars, engineVars, blockVars, heapVars, decodeVars, fileVars, trimVars, teiVars, pdfVars, batchVars, convVars, citeVars, refs, idx, seenKeys, seenVals, duplicatesRemoved, origin, sortIn,
                 items, docxVars, keyVars, pipeVars>>

\* normalizeRefs: unique.map(trimItem), then sortItems
TrimAndSort ==
  /\ pc = "trim"
  /\ sortIn' = [i \in 1..Len(unique) |-> TrimItem(unique[i])]
  /\ items' = SortItems(sortIn')
  /\ pc' = "done"
  /\ UNCHANGED <<risVars, engineVars, blockVars, heapVars, decodeVars, fileVars, trimVars, teiVars, pdfVars, batchVars, convVars, citeVars, refs, idx, seenKeys, seenVals, duplicatesRemoved, origin, unique,
                 docxVars, keyVars, pipeVars>>

\* sortItems called on its own with the items of refs
SortItemsCall ==
  /\ pc = "dedupe"
  /\ idx = 1
  /\ sortIn' = [i \in 1..Len(refs) |-> refs[i].item]
  /\ items' = SortItems(sortIn')
  /\ pc' = "sorted"
  /\ UNCHANGED <<risVars, engineVars, blockVars, heapVars, decodeVars, fileVars, trimVars, teiVars, pdfVars, batchVars, convVars, citeVars, refs, idx, seenKeys, seenVals, duplicatesRemoved, origin, unique,
                 docxVars, keyVars, pipeVars>>

NextNorm ==
  \/ DedupeFirstSeen
  \/ DedupeDuplicate
  \/ DedupeReturn
  \/ TrimAndSort
  \/ SortItemsCall

SpecNorm == InitNorm /\ [][NextNorm]_vars

KeyOfRef(i) == GenerateDedupeKey(refs[i].item)

\* the positions of refs holding the first record of each dedupe key
FirstSeenAt == { i \in 1..Len(refs) : \A j \in 1..(i - 1) : KeyOfRef(j) # KeyOfRef(i) }

\* the p-th of them
NthFirstSeen(p) ==
  CHOOSE i \in FirstSeenAt : Cardinality({ j \in FirstSeenAt : j < i }) = p - 1

\* every non-empty field of a is a field of b with the same value
KeepsNonEmptyFields(a, b) ==
  \A k \in DOMAIN a : ~IsEmptyValue(a[k]) => (k \in DOMAIN b /\ b[k] = a[k])

\* C6: a merge of a later duplicate B into the canonical record A leaves
\* every field of A that was non-empty (not absent, null or "") as it was
\* and sets only fields that were absent, null or empty on A, to B's
\* non-empty value; after any number of merges the canonical record still
\* has every non-empty field of the first-seen record.
C6_MergeNonDestructive ==
  /\ [][ \A p \in 1..Len(seenVals) :
           /\ KeepsNonEmptyFields(seenVals[p], seenVals'[p])
           /\ \A k \in DOMAIN seenVals'[p] :
                seenVals'[p][k] # Get(seenVals[p], k) =>
                  /\ IsEmptyValue(Get(seenVals[p], k))
                  /\ seenVals'[p][k] = Get(refs[idx].item, k)
                  /\ ~IsEmptyValue(seenVals'[p][k]) ]_vars
  /\ [](\A p \in 1..Len(seenVals) :
           KeepsNonEmptyFields(refs[NthFirstSeen(p)].item, seenVals[p]))

\* witness of C6: record 2 was merged into record 1: the title of record 1
\* stayed, the volume and the URL of record 2 were filled in
C6_Witness ==
  /\ pc = "dedupe"
  /\ idx = 3
  /\ refs[1].item = NormItems[1]
  /\ refs[2].item = NormItems[2]
  /\ Len(seenVals) = 1
  /\ seenVals[1]["title"] = NormItems[1]["title"]
  /\ seenVals[1]["DOI"] = NormItems[1]["DOI"]
  /\ seenVals[1]["volume"] = NormItems[2]["volume"]
  /\ seenVals[1]["URL"] = NormItems[2]["URL"]

\* C7: deduplicateItems returns one record per distinct dedupe key of the
\* input, in the order in which the keys were first seen; two input records
\* end up in the same output record exactly when their keys are equal; the
\* record of a key is the first-seen record of that key (with its gaps
\* filled): it keeps every non-empty field of the first-seen record, its
\* title included.
C7_OnePerKey ==
  pc = "trim" =>
    /\ Len(unique) = Cardinality({ KeyOfRef(i) : i \in 1..Len(refs) })
    /\ \A p \in 1..Len(unique) :
         /\ seenKeys[p] = KeyOfRef(NthFirstSeen(p))
         /\ KeepsNonEmptyFields(refs[NthFirstSeen(p)].item, unique[p])
         /\ Truthy(Get(refs[NthFirstSeen(p)].item, "title")) =>
              unique[p]["title"] = refs[NthFirstSeen(p)].item["title"]
    /\ \A i, j \in 1..Len(refs) :
         (origin[i] = origin[j]) <=> (KeyOfRef(i) = KeyOfRef(j))

\* witness of C7: two records share a DOI and have different titles; one
\* record with the first-seen title is returned, followed by another key's
C7_Witness ==
  /\ pc = "trim"
  /\ Len(refs) = 3
  /\ refs[1].item = NormItems[2]
  /\ refs[2].item = NormItems[7]
  /\ refs[3].item = NormItems[1]
  /\ Len(unique) = 2
  /\ unique[1]["title"] = NormItems[2]["title"]
  /\ unique[2] = NormItems[7]

\* C8: the duplicates-removed count returned by deduplicateItems and by
\* normalizeRefs is the number of input records minus the number of
\* records returned.
C8_DuplicatesRemoved ==
  /\ pc = "trim" => duplicatesRemoved = Len(refs) - Len(unique)
  /\ pc = "done" => duplicatesRemoved = Len(refs) - Len(items)

\* witness of C8: three records, two of them duplicates of the first
C8_Witness ==
  /\ pc = "done"
  /\ Len(refs) = 3
  /\ Len(items) = 1
  /\ duplicatesRemoved = 2

\* x sorts before y: at the first position where they differ x has ended or
\* holds the character of lower rank
StrLess(x, y) ==
  \E i \in 1..Len(y) :
    /\ Len(x) >= i - 1
    /\ SubSeq(x, 1, i - 1) = SubSeq(y, 1, i - 1)
    /\ (Len(x) = i - 1 \/ CharRank(x[i]) < CharRank(y[i]))

SortKey(item) ==
  << GetFirstAuthorFamily(item), ExtractYear(item), NormalizeTitle(TitleOrEmpty(item)) >>

\* (author, year, title) of a is not behind that of b
SortKeyLeq(a, b) ==
  LET ka == SortKey(a)
      kb == SortKey(b)
  IN  \/ StrLess(ka[1], kb[1])
      \/ ka[1] = kb[1] /\ StrLess(ka[2], kb[2])
      \/ ka[1] = kb[1] /\ ka[2] = kb[2] /\ StrLess(ka[3], kb[3])
      \/ ka = kb

Occurrences(list, x) == Cardinality({ i \in 1..Len(list) : list[i] = x })

IsPermutation(l1, l2) ==
  /\ Len(l1) = Len(l2)
  /\ \A x \in Range(l1) \cup Range(l2) : Occurrences(l1, x) = Occurrences(l2, x)

IsNumericYear(y) == y # <<>> /\ \A i \in 1..Len(y) : IsDigit(y[i])

\* C9: the list returned by sortItems and by normalizeRefs is a permutation
\* of the list sorted, ascending by first-author family name, then by year
\* as a string ("unknown" after every numeric year), then by normalized
\* title.
C9_Sorted ==
  pc \in {"done", "sorted"} =>
    /\ IsPermutation(items, sortIn)
    /\ \A i, j \in 1..Len(items) :
         i < j =>
           /\ SortKeyLeq(items[i], items[j])
           /\ ~( /\ SortKey(items[i])[1] = SortKey(items[j])[1]
                 /\ SortKey(items[i])[2] = UNKNOWN
                 /\ IsNumericYear(SortKey(items[j])[2]) )

\* witness of C9: three records given in another order; the two with the
\* same author come out with the numeric year before "unknown"
C9_Witness ==
  /\ pc = "sorted"
  /\ sortIn = << NormItems[1], NormItems[4], NormItems[5] >>
  /\ items = << NormItems[5], NormItems[4], NormItems[1] >>

RECURSIVE WithSortKey(_, _)
WithSortKey(list, key) ==
  IF list = <<>> THEN <<>>
  ELSE IF SortKey(Head(list)) = key
    THEN << Head(list) >> \o WithSortKey(Tail(list), key)
    ELSE WithSortKey(Tail(list), key)

\* C10: the records whose author, year and title sort keys are all equal
\* come out of sortItems and normalizeRefs in the order they went in (for
\* normalizeRefs: the first-seen order of their dedupe keys).
C10_Stable ==
  /\ pc \in {"done", "sorted"} =>
       \A i \in 1..Len(items) :
         WithSortKey(items, SortKey(items[i])) = WithSortKey(sortIn, SortKey(items[i]))
  /\ pc = "done" =>
       \A p \in 1..Len(sortIn) :
         /\ sortIn[p] = TrimItem(unique[p])
         /\ seenKeys[p] = KeyOfRef(NthFirstSeen(p))

\* witness of C10: two different records with the same sort keys, the one
\* seen first still first
C10_Witness ==
  /\ pc = "done"
  /\ Len(items) = 3
  /\ refs[1].item = NormItems[8]
  /\ refs[3].item = NormItems[1]
  /\ \E i \in 1..2 :
       /\ SortKey(items[i]) = SortKey(items[i + 1])
       /\ items[i] = NormItems[8]
       /\ items[i + 1] = NormItems[1]

(***************************************************************************)
(* Extraction of records from parsed citation payloads (docx.ts) and from  *)
(* TEI bibliography entries (pdf.ts).                                      *)
(*                                                                         *)
(* A citation payload is the value JSON.parse returned: a record           *)
(* [citationItems |-> sequence of citation items]; a citation item is      *)
(* [itemData |-> <<>>] (no itemData) or [itemData |-> <<item>>].           *)
(* A biblStruct is [analytic, monogr, idno]: analytic and monogr are <<>>  *)
(* (absent) or <<[title, idno]>>, title is a value, idno a sequence of     *)
(* [type, text].  The entries modelled carry no author and no imprint.     *)
(***************************************************************************)
StringFields ==
  {"type", "DOI", "ISBN", "ISSN", "PMID", "PMCID", "URL", "title", "page",
   "publisher", "container-title"}
StringOrNumberFields == {"id", "volume", "issue", "edition"}
NameFields == {"author", "editor", "translator"}
DateFields == {"issued", "accessed"}

\* CslItemSchema.safeParse(item).success
CslItemSchemaOk(item) ==
  /\ "type" \in DOMAIN item
  /\ \A k \in DOMAIN item :
       /\ k \in StringFields => item[k].t = "str"
       /\ k \in StringOrNumberFields => item[k].t \in {"str", "num"}
       /\ k \in NameFields => item[k].t = "names"
       /\ k \in DateFields => item[k].t \in {"date", "datestr"}

\* ZoteroCitationSchema.safeParse(parsed).success
ZoteroCitationSchemaOk(parsed) ==
  /\ "citationID" \in DOMAIN parsed => parsed.citationID.t = "str"
  /\ "citationItems" \in DOMAIN parsed =>
       \A i \in 1..Len(parsed.citationItems) :
         LET c == parsed.citationItems[i]
             d == c.itemData
         IN  /\ "locator" \in DOMAIN c => c.locator.t = "str"
             /\ d # <<>> => CslItemSchemaOk(d[1])

DocxRef(item) == [item |-> item, source |-> "docx-citation"]

\* extractItemData without the look at itemData.type
ExtractItemDataAnyType(citationItem) ==
  IF citationItem.itemData = <<>> THEN <<>>
  ELSE << DocxRef(citationItem.itemData[1]) >>

\* extractItemData(item, sourceFile): <<>> for null
ExtractItemData(citationItem) ==
  IF citationItem.itemData = <<>> THEN <<>>
  ELSE IF ~Truthy(Get(citationItem.itemData[1], "type")) THEN <<>>
  ELSE << DocxRef(citationItem.itemData[1]) >>

\* parseCitationJson, the loop of the branch taken when validation failed
RECURSIVE RelaxedItems(_)
RelaxedItems(citationItems) ==
  IF citationItems = <<>> THEN <<>>
  ELSE ExtractItemData(Head(citationItems)) \o RelaxedItems(Tail(citationItems))

\* parseCitationJson, the loop over citation.citationItems
RECURSIVE StrictItems(_)
StrictItems(citationItems) ==
  IF citationItems = <<>> THEN <<>>
  ELSE LET d == Head(citationItems).itemData
           here == IF d = <<>> THEN <<>>
                   ELSE IF CslItemSchemaOk(d[1]) THEN << DocxRef(d[1]) >>
                   ELSE IF Truthy(Get(d[1], "type")) THEN << DocxRef(d[1]) >>
                   ELSE <<>>
       IN  here \o StrictItems(Tail(citationItems))

\* parseCitationJson(jsonStr, sourceFile), from the parsed value on
ParseCitationJson(parsed) ==
  IF "citationItems" \notin DOMAIN parsed THEN <<>>
  ELSE IF ~ZoteroCitationSchemaOk(parsed) THEN RelaxedItems(parsed.citationItems)
  ELSE StrictItems(parsed.citationItems)

\* what JSON.parse gives for a text that is not JSON: a SyntaxError
SyntaxError == [syntaxError |-> TRUE]

\* the loop over jsonBlocks without its try/catch: nothing is returned from
\* the failing block on
RECURSIVE ExtractFromDocxAborting(_)
ExtractFromDocxAborting(citations) ==
  IF citations = <<>> THEN <<>>
  ELSE IF Head(citations) = SyntaxError THEN <<>>
  ELSE ParseCitationJson(Head(citations)) \o ExtractFromDocxAborting(Tail(citations))

\* extractFromDocx(file).refs: the records of every payload, in order; a
\* payload that JSON.parse rejects is logged and skipped
RECURSIVE ExtractFromDocx(_)
ExtractFromDocx(citations) ==
  IF citations = <<>> THEN <<>>
  ELSE IF Head(citations) = SyntaxError THEN ExtractFromDocx(Tail(citations))
  ELSE ParseCitationJson(Head(citations)) \o ExtractFromDocx(Tail(citations))

\* extractText(element) of a string element
ExtractText(element) ==
  IF ~Truthy(element) THEN Undef ELSE Str(Trim(element.s))

\* item[f] = v
SetField(item, f, v) ==
  [k \in DOMAIN item \cup {f} |-> IF k = f THEN v ELSE item[k]]

IdentifierTypes ==
  { <<"D","O","I">>, <<"P","M","I","D">>, <<"P","M","C","I","D">>,
    <<"I","S","S","N">>, <<"I","S","B","N">> }

\* the property name a type of IdentifierTypes selects
IdentifierField(type) ==
  CASE type = <<"D","O","I">> -> "DOI"
    [] type = <<"P","M","I","D">> -> "PMID"
    [] type = <<"P","M","C","I","D">> -> "PMCID"
    [] type = <<"I","S","S","N">> -> "ISSN"
    [] OTHER -> "ISBN"

\* extractIdentifiers(obj, item), idno being obj.idno as a list
RECURSIVE ExtractIdentifiers(_, _)
ExtractIdentifiers(idno, item) ==
  IF idno = <<>> THEN item
  ELSE LET id == Head(idno)
           value == ExtractText(id.text)
           next == IF id.type = <<>> \/ ~Truthy(value) THEN item
                   ELSE IF ToUpperCase(id.type) \in IdentifierTypes
                     THEN SetField(item, IdentifierField(ToUpperCase(id.type)), value)
                   ELSE item
       IN  ExtractIdentifiers(Tail(idno), next)

\* biblStructToCsl without the change of type
BiblStructToCslKeepType(bibl) ==
  LET item0 == MkItem([type |-> ArticleType])
      item1 ==
        IF bibl.analytic = <<>> THEN item0
        ELSE LET title == ExtractText(bibl.analytic[1].title)
                 t == IF Truthy(title) THEN SetField(item0, "title", title) ELSE item0
             IN  ExtractIdentifiers(bibl.analytic[1].idno, t)
      item2 ==
        IF bibl.monogr = <<>> THEN item1
        ELSE LET containerTitle == ExtractText(bibl.monogr[1].title)
                 c == IF Truthy(containerTitle)
                        THEN SetField(item1, "container-title", containerTitle)
                        ELSE item1
                 t == IF ~Truthy(Get(c, "title"))
                        THEN SetField(c, "title", containerTitle)
                        ELSE c
             IN  ExtractIdentifiers(bibl.monogr[1].idno, t)
      item3 == ExtractIdentifiers(bibl.idno, item2)
  IN  IF ~Truthy(Get(item3, "title")) THEN <<>> ELSE << item3 >>

\* biblStructToCsl(bibl): <<>> for null
BiblStructToCsl(bibl) ==
  LET item0 == MkItem([type |-> ArticleType])
      item1 ==
        IF bibl.analytic = <<>> THEN item0
        ELSE LET title == ExtractText(bibl.analytic[1].title)
                 t == IF Truthy(title) THEN SetField(item0, "title", title) ELSE item0
             IN  ExtractIdentifiers(bibl.analytic[1].idno, t)
      item2 ==
        IF bibl.monogr = <<>> THEN item1
        ELSE LET containerTitle == ExtractText(bibl.monogr[1].title)
                 c == IF Truthy(containerTitle)
                        THEN SetField(item1, "container-title", containerTitle)
                        ELSE item1
                 t == IF ~Truthy(Get(c, "title"))
                        THEN SetField(SetField(c, "title", containerTitle),
                                      "type", BookType)
                        ELSE c
             IN  ExtractIdentifiers(bibl.monogr[1].idno, t)
      item3 == ExtractIdentifiers(bibl.idno, item2)
  IN  IF ~Truthy(Get(item3, "title")) THEN <<>> ELSE << item3 >>

\* parseTeiToCsl(teiXml, sourceFile), from the biblStruct elements on
RECURSIVE ParseTeiToCsl(_)
ParseTeiToCsl(biblStructs) ==
  IF biblStructs = <<>> THEN <<>>
  ELSE LET item == BiblStructToCsl(Head(biblStructs))
       IN  (IF item = <<>> THEN <<>>
            ELSE << [item |-> item[1], source |-> "pdf-grobid"] >>)
           \o ParseTeiToCsl(Tail(biblStructs))

(***************************************************************************)
(* Specification SpecPipe: main's loop over the input files, one file per  *)
(* step, then normalizeRefs on everything extracted.                       *)
(***************************************************************************)
MaxFiles == 2

S_Art == <<"A","r","t">>
S_Doi == <<"1","/","X">>

\* the itemData objects a citation item may carry
PipeItemData ==
  { \* a type and nothing else
    MkItem([type |-> BookType]),
    \* a title and a DOI
    MkItem([type |-> ArticleType, title |-> Str(S_Art), DOI |-> Str(S_Doi)]),
    \* no type
    MkItem([title |-> Str(S_Art)]),
    \* a null volume, which the item schema rejects
    MkItem([type |-> BookType, volume |-> Null]),
    \* an empty title and an empty URL
    MkItem([type |-> WebType, title |-> Str(<<>>), URL |-> Str(<<>>)]) }

PipeCitationItems ==
  { [itemData |-> <<>>] } \cup { [itemData |-> << d >>] : d \in PipeItemData }

PipeCitations ==
  { [citationItems |-> l] :
      l \in UNION { [1..n -> PipeCitationItems] : n \in 1..2 } }

NoPart == <<>>
Part(title, idno) == << [title |-> title, idno |-> idno] >>
DoiIdno == << [type |-> <<"d","o","i">>, text |-> Str(S_Doi)] >>

\* the biblStruct elements a TEI document may carry
PipeBiblStructs ==
  { \* an article in a journal
    [analytic |-> Part(Str(S_Art), <<>>),
     monogr |-> Part(Str(<<"J","r","n","l">>), <<>>), idno |-> <<>>],
    \* a monograph only
    [analytic |-> NoPart, monogr |-> Part(Str(<<" ","B","k">>), <<>>),
     idno |-> DoiIdno],
    \* a DOI and no title anywhere
    [analytic |-> Part(Undef, DoiIdno), monogr |-> Part(Str(<<" ">>), <<>>),
     idno |-> <<>>],
    \* nothing
    [analytic |-> NoPart, monogr |-> NoPart, idno |-> <<>>] }

PipeFiles ==
  { [ext |-> "docx", citations |-> << c >>, biblStructs |-> <<>>] :
      c \in PipeCitations }
  \cup
  { [ext |-> "pdf", citations |-> <<>>, biblStructs |-> l] :
      l \in UNION { [1..n -> PipeBiblStructs] : n \in 1..2 } }

InitPipe ==
  /\ pc = "files"
  /\ RisIdle
  /\ EngineIdle
  /\ BlockIdle
  /\ HeapIdle
  /\ DecodeIdle
  /\ FileIdle
  /\ TrimIdle
  /\ TeiIdle
  /\ PdfIdle
  /\ BatchIdle
  /\ ConvIdle
  /\ CiteIdle
  /\ DocxIdle
  /\ KeyIdle
  /\ NormIdle
  /\ files \in UNION { [1..n -> PipeFiles] : n \in 1..MaxFiles }
  /\ grobidUrl \in BOOLEAN
  /\ fileIdx = 1
  /\ allRefs = <<>>

\* main, loop body, ext === 'docx'
ProcessDocx ==
  /\ pc = "files"
  /\ fileIdx <= Len(files)
  /\ files[fileIdx].ext = "docx"
  /\ allRefs' = allRefs \o ExtractFromDocx(files[fileIdx].citations)
  /\ fileIdx' = fileIdx + 1
  /\ UNCHANGED <<risVars, engineVars, blockVars, heapVars, decodeVars, fileVars, trimVars, teiVars, pdfVars, batchVars, convVars, citeVars, pc, files, grobidUrl, docxVars, keyVars, normVars>>

\* main, loop body, ext === 'pdf' && grobidUrl
ProcessPdf ==
  /\ pc = "files"
  /\ fileIdx <= Len(files)
  /\ files[fileIdx].ext = "pdf"
  /\ grobidUrl
  /\ allRefs' = allRefs \o ParseTeiToCsl(files[fileIdx].biblStructs)
  /\ fileIdx' = fileIdx + 1
  /\ UNCHANGED <<risVars, engineVars, blockVars, heapVars, decodeVars, fileVars, trimVars, teiVars, pdfVars, batchVars, convVars, citeVars, pc, files, grobidUrl, docxVars, keyVars, normVars>>

\* main, loop body, neither branch: a PDF without --pdf-via-grobid
SkipFile ==
  /\ pc = "files"
  /\ fileIdx <= Len(files)
  /\ files[fileIdx].ext = "pdf"
  /\ ~grobidUrl
  /\ fileIdx' = fileIdx + 1
  /\ UNCHANGED <<risVars, engineVars, blockVars, heapVars, decodeVars, fileVars, trimVars, teiVars, pdfVars, batchVars, convVars, citeVars, pc, files, grobidUrl, allRefs, docxVars, keyVars, normVars>>

\* main: const { items, duplicatesRemoved } = normalizeRefs(allRefs)
NormalizeAll ==
  /\ pc = "files"
  /\ fileIdx > Len(files)
  /\ LET r == NormalizeRefs(allRefs) IN
       /\ items' = r.items
       /\ duplicatesRemoved' = r.duplicatesRemoved
  /\ pc' = "output"
  /\ UNCHANGED <<risVars, engineVars, blockVars, heapVars, decodeVars, fileVars, trimVars, teiVars, pdfVars, batchVars, convVars, citeVars, refs, idx, seenKeys, seenVals, origin, unique, sortIn,
                 docxVars, keyVars, pipeVars>>

NextPipe ==
  \/ ProcessDocx
  \/ ProcessPdf
  \/ SkipFile
  \/ NormalizeAll

SpecPipe == InitPipe /\ [][NextPipe]_vars

Identifiers == {"DOI", "ISBN", "ISSN", "PMID", "PMCID", "URL"}

\* the record has a title or at least one identifier
IsViable(item) ==
  \/ Truthy(Get(item, "title"))
  \/ \E k \in Identifiers : Truthy(Get(item, k))

\* C3: no record with neither a title nor any identifier (DOI, ISBN, ISSN,
\* PMID, PMCID, URL) is present in the final output of the pipeline.
C3_MinimumViability ==
  pc = "output" => \A i \in 1..Len(items) : IsViable(items[i])

\* C3, for the records that came from a PDF: biblStructToCsl requires a title
C3_PdfRecordsHaveTitle ==
  \A i \in 1..Len(allRefs) :
    allRefs[i].source = "pdf-grobid" => Truthy(Get(allRefs[i].item, "title"))

(***************************************************************************)
(* Specification SpecRekey: normalizeRefs on records whose DOI and URL     *)
(* carry whitespace, trailing slashes or a prefix                          *)
(***************************************************************************)
S_Url == <<"h","t","t","p",":","/","/","e">>

RekeyItems ==
  { \* a URL
    MkItem([type |-> WebType, URL |-> Str(S_Url), title |-> Str(<<"U">>)]),
    \* the same URL with a trailing slash and a space behind it
    MkItem([type |-> WebType, URL |-> Str(S_Url \o <<"/", " ">>)]),
    \* a DOI
    MkItem([type |-> ArticleType, DOI |-> Str(S_Doi)]),
    \* the same DOI behind a space and the doi: prefix
    MkItem([type |-> ArticleType, DOI |-> Str(<<" ", "d", "o", "i", ":">> \o S_Doi),
            title |-> Str(S_Art)]),
    \* a DOI of one space, and a title
    MkItem([type |-> ArticleType, DOI |-> Str(<<" ">>), title |-> Str(S_Art)]),
    \* the same title and no DOI
    MkItem([type |-> ArticleType, title |-> Str(S_Art)]) }

InitRekey ==
  /\ pc = "dedupe"
  /\ RisIdle
  /\ EngineIdle
  /\ BlockIdle
  /\ HeapIdle
  /\ DecodeIdle
  /\ FileIdle
  /\ TrimIdle
  /\ TeiIdle
  /\ PdfIdle
  /\ BatchIdle
  /\ ConvIdle
  /\ CiteIdle
  /\ DocxIdle
  /\ KeyIdle
  /\ PipeIdle
  /\ \E l \in UNION { [1..n -> RekeyItems] : n \in 0..MaxRefs } :
       refs = [i \in 1..Len(l) |-> [item |-> l[i], source |-> "docx-citation"]]
  /\ idx = 1
  /\ seenKeys = <<>>
  /\ seenVals = <<>>
  /\ duplicatesRemoved = 0
  /\ origin = <<>>
  /\ unique = <<>>
  /\ sortIn = <<>>
  /\ items = <<>>

SpecRekey == InitRekey /\ [][NextNorm]_vars

\* C27: in the list returned by normalizeRefs no two records have the same
\* dedupe key, the keys being computed on the returned, trimmed records.
C27_DistinctKeys ==
  pc = "done" =>
    \A i, j \in 1..Len(items) :
      i # j => GenerateDedupeKey(items[i]) # GenerateDedupeKey(items[j])

\* C27, for the keys under which the records were entered in the Map: these
\* are pairwise distinct
C27_DistinctMapKeys ==
  \A i, j \in 1..Len(seenKeys) : i # j => seenKeys[i] # seenKeys[j]

(***************************************************************************)
(* normalize.ts: citation keys (README.md 1329-1355)                       *)
(***************************************************************************)
\* s.split(/\s+/)
RECURSIVE SplitSpaces(_)
SplitSpaces(s) ==
  LET sp == { i \in 1..Len(s) : IsSpace(s[i]) } IN
  IF sp = {} THEN << s >>
  ELSE LET i == SetMin(sp)
           rest == { j \in i..Len(s) : ~IsSpace(s[j]) }
       IN  << SubSeq(s, 1, i - 1) >> \o
           SplitSpaces(IF rest = {} THEN <<>> ELSE SubSeq(s, SetMin(rest), Len(s)))

\* s.charAt(0).toUpperCase() + s.slice(1)
Capitalize(s) == IF s = <<>> THEN <<>> ELSE << UpperOf(s[1]) >> \o Tail(s)

skipWords ==
  { <<"a">>, <<"a","n">>, <<"t","h","e">>, <<"o","n">>, <<"i","n">>,
    <<"o","f">>, <<"f","o","r">>, <<"t","o">> }

UNTITLED == <<"U","n","t","i","t","l","e","d">>

\* getFirstTitleWord without the stop-list
RECURSIVE FirstCleanWord(_)
FirstCleanWord(words) ==
  IF words = <<>> THEN UNTITLED
  ELSE LET cleaned == SelectSeq(Head(words), IsLower)
       IN  IF cleaned # <<>> THEN Capitalize(cleaned)
           ELSE FirstCleanWord(Tail(words))

GetFirstTitleWordNoSkip(title) == FirstCleanWord(SplitSpaces(ToLowerCase(title)))

\* getFirstTitleWord, the for loop over words
RECURSIVE FirstSignificantWord(_)
FirstSignificantWord(words) ==
  IF words = <<>> THEN UNTITLED
  ELSE LET cleaned == SelectSeq(Head(words), IsLower)
       IN  IF cleaned # <<>> /\ cleaned \notin skipWords THEN Capitalize(cleaned)
           ELSE FirstSignificantWord(Tail(words))

\* getFirstTitleWord(title)
GetFirstTitleWord(title) == FirstSignificantWord(SplitSpaces(ToLowerCase(title)))

\* generateCiteKey(item)
GenerateCiteKey(item) ==
  LET family == GetFirstAuthorFamily(item)
      author == IF family # <<>> THEN family ELSE UNKNOWN
      year == ExtractYear(item)
      titleWord == GetFirstTitleWord(TitleOrEmpty(item))
  IN  Capitalize(author) \o year \o titleWord

(***************************************************************************)
(* Specification SpecCite: generateCiteKey on one record.                  *)
(***************************************************************************)
CiteAuthors ==
  { Undef,
    Names(<<>>),
    Names(<< [family |-> S_Doe, given |-> <<"J">>] >>),
    Names(<< [family |-> <<" ","O","'","N","e","i","l">>], [family |-> S_Doe] >>),
    Names(<< [family |-> <<"1","2">>] >>),
    Names(<< [literal |-> <<"W","H","O"," ","E","u">>] >>),
    Names(<< [given |-> <<"J">>] >>) }

CiteTitles ==
  { Undef,
    Str(<<>>),
    Str(<<"T","h","e">>),
    Str(<<" ","A"," ","a","n","\t","1","9"," ","O","f">>),
    Str(<<"t","h","e"," "," ","G","r","-","8"," ","i","t">>),
    Str(<<"O","n","e"," ","t","o">>),
    Str(<<"\"","T","o","\""," ","Z","e","d","!">>),
    Str(<<"3"," ","-">>) }

CiteDates ==
  { Undef,
    Date(2020, <<>>),
    Date(868, <<>>),
    Date(0, <<"c","."," ","1","9","9","9","0">>),
    Date(0, <<"n",".","d",".">>),
    DateStr(<<"2","0","2","0">>),
    DateStr(<<"i","n"," ","p","r","e","s","s">>) }

InitCite ==
  /\ pc = "item"
  /\ RisIdle
  /\ EngineIdle
  /\ BlockIdle
  /\ HeapIdle
  /\ DecodeIdle
  /\ FileIdle
  /\ TrimIdle
  /\ TeiIdle
  /\ PdfIdle
  /\ BatchIdle
  /\ ConvIdle
  /\ DocxIdle
  /\ KeyIdle
  /\ NormIdle
  /\ PipeIdle
  /\ \E a \in CiteAuthors, t \in CiteTitles, d \in CiteDates :
       citeItem = MkItem([type |-> BookType, author |-> a, title |-> t, issued |-> d])
  /\ citeYear = <<>>
  /\ citeKey = <<>>

\* generateCiteKey(citeItem)
GenerateCiteKeyCall ==
  /\ pc = "item"
  /\ citeYear' = ExtractYear(citeItem)
  /\ citeKey' = GenerateCiteKey(citeItem)
  /\ pc' = "cited"
  /\ UNCHANGED <<risVars, engineVars, blockVars, heapVars, decodeVars, fileVars, trimVars, teiVars, pdfVars, batchVars, convVars, citeItem, docxVars, keyVars, normVars, pipeVars>>

NextCite == GenerateCiteKeyCall

SpecCite == InitCite /\ [][NextCite]_vars

\* the name of the first author that the key is built from: the family name,
\* else the first word of the literal name; <<>> when there is neither
FirstAuthorName(item) ==
  LET author == Get(item, "author") IN
  IF author.t # "names" \/ author.a = <<>> THEN <<>>
  ELSE IF NameGet(author.a[1], "family") # <<>> THEN NameGet(author.a[1], "family")
  ELSE IF NameGet(author.a[1], "literal") # <<>>
    THEN SplitSpaces(NameGet(author.a[1], "literal"))[1]
  ELSE <<>>

LettersOf(s) == SelectSeq(ToLowerCase(s), IsLower)

Unknown == <<"U","n","k","n","o","w","n">>

\* the starts of the words of s: maximal runs of characters other than
\* white space
WordStarts(s) ==
  { i \in 1..Len(s) : ~IsSpace(s[i]) /\ (i = 1 \/ IsSpace(s[i - 1])) }

WordAt(s, i) ==
  LET ends == { j \in i..Len(s) : j = Len(s) \/ IsSpace(s[j + 1]) }
  IN  SubSeq(s, i, SetMin(ends))

\* TitleWord as the claim defines it
ClaimedTitleWord(item) ==
  LET t == TitleOrEmpty(item)
      ok == { i \in WordStarts(t) :
                /\ LettersOf(WordAt(t, i)) # <<>>
                /\ LettersOf(WordAt(t, i)) \notin skipWords }
  IN  IF ok = {} THEN UNTITLED
      ELSE Capitalize(LettersOf(WordAt(t, SetMin(ok))))

C12_YearShape ==
  pc = "cited" =>
    \/ citeYear = UNKNOWN
    \/ Len(citeYear) = 4 /\ \A i \in 1..4 : IsDigit(citeYear[i])

(***************************************************************************)
(* convert/citationJs.ts (README.md 387-772): entry keys.                  *)
(*                                                                         *)
(* Of a rendered bibliography the model keeps the entry key of each        *)
(* record, [has |-> TRUE, key |-> k], or NoKey for an entry rendered       *)
(* without any key.  The formatting engine (citation-js) is not part of    *)
(* the sources: the key it gives an entry is either the id of the item or  *)
(* a label of its own.                                                     *)
(***************************************************************************)
MaxConvItems == 2

BIBTEX == "bibtex"
BIBLATEX == "biblatex"
RIS == "ris"
CSL == "csl"

\* a ?? b
Coalesce(a, b) == IF a.t \in {"undef", "null"} THEN b ELSE a

\* `ref-${index + 1}`, index + 1 being n
RefN(n) == <<"r","e","f","-">> \o NumToStr(n)

\* String(v) for a string or a non-negative integer
StringOf(v) == IF v.t = "num" THEN NumToStr(v.n) ELSE v.s

\* convertToFormat: itemsWithIds
ItemsWithIds(list) ==
  [i \in 1..Len(list) |->
     SetField(list[i], "id",
              Coalesce(Coalesce(Get(list[i], "id"), Str(GenerateCiteKey(list[i]))),
                       Str(RefN(i))))]

Key(k) == [has |-> TRUE, key |-> k]
NoKey == [has |-> FALSE, key |-> <<>>]

\* the label the engine generates for the entry at position i
EngineLabel(i) == <<"e","n","t","r","y">> \o NumToStr(i)

\* the entry keys of cite.format(...): per entry the item's id or a label
EngineKeys(list, useId) ==
  [i \in 1..Len(list) |->
     Key(IF useId[i] THEN StringOf(list[i]["id"]) ELSE EngineLabel(i))]

\* postProcessBibTeX without the substitution
PostProcessNothing(keys, list) == keys

\* postProcessBibTeX(bibtex, items): for each item in turn, every entry key
\* equal to String(item.id) becomes generateCiteKey(item)
RECURSIVE PostProcessBibTeX(_, _)
PostProcessBibTeX(keys, list) ==
  IF list = <<>> THEN keys
  ELSE LET originalId == StringOf(Head(list)["id"])
           newKey == GenerateCiteKey(Head(list))
       IN  PostProcessBibTeX(
             [i \in 1..Len(keys) |->
                IF keys[i].key = originalId THEN Key(newKey) ELSE keys[i]],
             Tail(list))

\* manualBibTeX / manualBibLaTeX: the key of generateBibTeXEntry and of
\* generateBibLaTeXEntry
ManualKeys(list) == [i \in 1..Len(list) |-> Key(GenerateCiteKey(list[i]))]

\* manualRis: generateRisEntry writes no key
ManualRisKeys(list) == [i \in 1..Len(list) |-> NoKey]

(***************************************************************************)
(* formatCslJson (README.md 433-438).  A JSON value is a node              *)
(* <<"atom", text>>, <<"arr", elements>> or <<"obj", <<name, node>>...>>.  *)
(***************************************************************************)
\* the characters of a JSON string literal for s
RECURSIVE EscapeJson(_)
EscapeJson(s) ==
  IF s = <<>> THEN <<>>
  ELSE (CASE Head(s) = "\"" -> <<"\\", "\"">>
          [] Head(s) = "\\" -> <<"\\", "\\">>
          [] Head(s) = "\n" -> <<"\\", "n">>
          [] Head(s) = "\t" -> <<"\\", "t">>
          [] Head(s) = "\r" -> <<"\\", "r">>
          [] OTHER -> << Head(s) >>) \o EscapeJson(Tail(s))

Atom(text) == <<"atom", text>>
JsonStr(s) == Atom(Quote(EscapeJson(s)))
JsonNull == Atom(<<"n","u","l","l">>)

\* property order of a serialized item and of a serialized name
ItemKeyOrder ==
  <<"type", "title", "author", "issued", "volume", "DOI", "URL", "id">>
NameKeyOrder == <<"family", "given", "literal">>

NameNode(name) ==
  LET ks == SelectSeq(NameKeyOrder, LAMBDA k : k \in DOMAIN name)
  IN  <<"obj", [i \in 1..Len(ks) |-> << ks[i], JsonStr(name[ks[i]]) >>]>>

\* the JSON value of a property value
ValueNode(v) ==
  CASE v.t = "str" -> JsonStr(v.s)
    [] v.t = "num" -> Atom(NumToStr(v.n))
    [] v.t = "names" -> <<"arr", [i \in 1..Len(v.a) |-> NameNode(v.a[i])]>>
    [] v.t = "datestr" ->
         <<"obj", << <<"date-parts", <<"arr", << <<"arr", << JsonStr(v.s) >> >> >> >> >> >> >>
    [] v.t = "date" ->
         <<"obj",
           (IF v.n # 0
              THEN << <<"date-parts", <<"arr", << <<"arr", << Atom(NumToStr(v.n)) >> >> >> >> >> >>
              ELSE <<>>)
           \o (IF v.s # <<>> THEN << <<"literal", JsonStr(v.s)>> >> ELSE <<>>)>>
    [] OTHER -> JsonNull

\* the JSON value of an item: undefined properties are left out
ItemNode(item) ==
  LET ks == SelectSeq(ItemKeyOrder,
                      LAMBDA k : k \in DOMAIN item /\ item[k].t # "undef")
  IN  <<"obj", [i \in 1..Len(ks) |-> << ks[i], ValueNode(item[ks[i]]) >>]>>

\* the characters of a property name
NameChars(k) ==
  CASE k = "type" -> <<"t","y","p","e">>
    [] k = "title" -> <<"t","i","t","l","e">>
    [] k = "author" -> <<"a","u","t","h","o","r">>
    [] k = "issued" -> <<"i","s","s","u","e","d">>
    [] k = "volume" -> <<"v","o","l","u","m","e">>
    [] k = "DOI" -> <<"D","O","I">>
    [] k = "URL" -> <<"U","R","L">>
    [] k = "id" -> <<"i","d">>
    [] k = "family" -> <<"f","a","m","i","l","y">>
    [] k = "given" -> <<"g","i","v","e","n">>
    [] k = "literal" -> <<"l","i","t","e","r","a","l">>
    [] k = "date-parts" -> <<"d","a","t","e","-","p","a","r","t","s">>

NL == <<"\n">>
Spaces(n) == [i \in 1..n |-> " "]

\* JSON.stringify(value, null, space) for space = 0 (minified) or 2, at
\* indentation ind
RECURSIVE Render(_, _, _)
RECURSIVE RenderMembers(_, _, _, _)
Render(node, ind, space) ==
  IF node[1] = "atom" THEN node[2]
  ELSE LET open == IF node[1] = "arr" THEN <<"[">> ELSE <<"{">>
           close == IF node[1] = "arr" THEN <<"]">> ELSE <<"}">>
       IN  IF Len(node[2]) = 0 THEN open \o close
           ELSE open
                \o RenderMembers(node[1], node[2], ind + space, space)
                \o (IF space > 0 THEN NL \o Spaces(ind) ELSE <<>>)
                \o close

RenderMembers(kind, members, ind, space) ==
  IF Len(members) = 0 THEN <<>>
  ELSE (IF space > 0 THEN NL \o Spaces(ind) ELSE <<>>)
       \o (IF kind = "arr" THEN Render(Head(members), ind, space)
           ELSE Quote(EscapeJson(NameChars(Head(members)[1]))) \o <<":">>
                \o (IF space > 0 THEN <<" ">> ELSE <<>>)
                \o Render(Head(members)[2], ind, space))
       \o (IF Len(members) > 1 THEN <<",">> ELSE <<>>)
       \o RenderMembers(kind, Tail(members), ind, space)

\* formatCslJson(items, minify)
FormatCslJson(list, minify) ==
  Render(<<"arr", [i \in 1..Len(list) |-> ItemNode(list[i])]>>, 0,
         IF minify THEN 0 ELSE 2)

S_x1 == <<"x","1">>

ConvItemPool ==
  { \* an identifier of its own
    MkItem([type |-> ArticleType, id |-> Str(S_x1), title |-> Str(S_Art),
            author |-> Names(<< [family |-> S_Doe] >>), issued |-> Date(2020, <<>>)]),
    \* the same record without identifier
    MkItem([type |-> ArticleType, title |-> Str(S_Art),
            author |-> Names(<< [family |-> S_Doe] >>), issued |-> Date(2020, <<>>)]),
    \* a numeric identifier, no author, year or title; a volume with a quote
    \* and a line break
    MkItem([type |-> BookType, id |-> Num(7), volume |-> Str(<<"\"", "\n">>)]),
    \* a null identifier, a title of stopped words
    MkItem([type |-> BookType, id |-> Null, title |-> Str(<<"T","h","e">>)]),
    \* an identifier that is the derived key of the second record
    MkItem([type |-> BookType, title |-> Str(<<"Z","e","d">>),
            id |-> Str(<<"D","o","e","2","0","2","0","A","r","t">>)]) }

InitConv ==
  /\ pc = "convert"
  /\ RisIdle
  /\ EngineIdle
  /\ BlockIdle
  /\ HeapIdle
  /\ DecodeIdle
  /\ FileIdle
  /\ TrimIdle
  /\ TeiIdle
  /\ PdfIdle
  /\ BatchIdle
  /\ DocxIdle
  /\ KeyIdle
  /\ NormIdle
  /\ PipeIdle
  /\ CiteIdle
  /\ convItems \in UNION { [1..n -> ConvItemPool] : n \in 0..MaxConvItems }
  /\ convFormat \in {BIBTEX, BIBLATEX, RIS, CSL}
  /\ convMinify \in (IF convFormat = CSL THEN BOOLEAN ELSE {FALSE})
  /\ convKeys = <<>>
  /\ convText = <<>>

\* convertToFormat, BibTeX / BibLaTeX, cite.format succeeded
ConvertByEngine ==
  /\ pc = "convert"
  /\ convFormat \in {BIBTEX, BIBLATEX}
  /\ \E useId \in [1..Len(convItems) -> BOOLEAN] :
       /\ engineKeys' = EngineKeys(ItemsWithIds(convItems), useId)
       /\ convKeys' = PostProcessBibTeX(engineKeys', ItemsWithIds(convItems))
  /\ pc' = "converted"
  /\ UNCHANGED <<risVars, blockVars, heapVars, decodeVars, fileVars, trimVars, teiVars, pdfVars, batchVars, convItems, convFormat, convMinify, convText, docxVars, keyVars,
                 normVars, pipeVars, citeVars>>

\* convertToFormat, BibTeX / BibLaTeX, cite.format threw
ConvertManually ==
  /\ pc = "convert"
  /\ convFormat \in {BIBTEX, BIBLATEX}
  /\ convKeys' = ManualKeys(ItemsWithIds(convItems))
  /\ pc' = "converted"
  /\ UNCHANGED <<risVars, engineVars, blockVars, heapVars, decodeVars, fileVars, trimVars, teiVars, pdfVars, batchVars, convItems, convFormat, convMinify, convText, docxVars, keyVars,
                 normVars, pipeVars, citeVars>>

\* convertToFormat, RIS, cite.format succeeded
ConvertRisByEngine ==
  /\ pc = "convert"
  /\ convFormat = RIS
  /\ \E useId \in [1..Len(convItems) -> BOOLEAN] :
       convKeys' = EngineKeys(ItemsWithIds(convItems), useId)
  /\ pc' = "converted"
  /\ UNCHANGED <<risVars, engineVars, blockVars, heapVars, decodeVars, fileVars, trimVars, teiVars, pdfVars, batchVars, convItems, convFormat, convMinify, convText, docxVars, keyVars,
                 normVars, pipeVars, citeVars>>

\* convertToFormat, RIS, cite.format threw
ConvertRisManually ==
  /\ pc = "convert"
  /\ convFormat = RIS
  /\ convKeys' = ManualRisKeys(ItemsWithIds(convItems))
  /\ pc' = "converted"
  /\ UNCHANGED <<risVars, engineVars, blockVars, heapVars, decodeVars, fileVars, trimVars, teiVars, pdfVars, batchVars, convItems, convFormat, convMinify, convText, docxVars, keyVars,
                 normVars, pipeVars, citeVars>>

\* convertToFormat, CSL: formatCslJson(itemsWithIds, options.minify)
ConvertCsl ==
  /\ pc = "convert"
  /\ convFormat = CSL
  /\ convText' = FormatCslJson(ItemsWithIds(convItems), convMinify)
  /\ pc' = "converted"
  /\ UNCHANGED <<risVars, engineVars, blockVars, heapVars, decodeVars, fileVars, trimVars, teiVars, pdfVars, batchVars, convItems, convFormat, convMinify, convKeys, docxVars, keyVars,
                 normVars, pipeVars, citeVars>>

NextConv ==
  \/ ConvertCsl
  \/ ConvertByEngine
  \/ ConvertManually
  \/ ConvertRisByEngine
  \/ ConvertRisManually

SpecConv == InitConv /\ [][NextConv]_vars

HasId(item) == Get(item, "id").t \notin {"undef", "null"}

\* C13: in a bracket-field or line-record rendering the entry key of each
\* record is its existing id if it has one, otherwise the derived citation
\* key (which always exists, so that ref-{n} is never needed); every entry
\* has a non-empty key.
C13_EntryKey ==
  (pc = "converted" /\ convFormat \in {BIBTEX, BIBLATEX, RIS}) =>
    \A i \in 1..Len(convItems) :
      /\ convKeys[i].has
      /\ convKeys[i].key # <<>>
      /\ convKeys[i].key = IF HasId(convItems[i]) THEN StringOf(convItems[i]["id"])
                           ELSE GenerateCiteKey(convItems[i])

\* C13, what the code does give: itemsWithIds carries the existing id, else
\* the derived citation key, and never the positional fallback
C13_IdsAssigned ==
  \A i \in 1..Len(convItems) :
    LET id == ItemsWithIds(convItems)[i]["id"] IN
    /\ id = IF HasId(convItems[i]) THEN convItems[i]["id"]
            ELSE Str(GenerateCiteKey(convItems[i]))
    /\ StringOf(id) # <<>>

\* the formatter keyed every entry by its record's id
KeyedByIds ==
  /\ Len(engineKeys) = Len(convItems)
  /\ \A i \in 1..Len(convItems) :
       engineKeys[i] = Key(StringOf(ItemsWithIds(convItems)[i]["id"]))

\* C25: after postProcessBibTeX has run over output in which each entry is
\* keyed by its record's id, every entry's key is the derived citation key
\* of that entry's own record, whatever the ids are.
C25_OwnKey ==
  (pc = "converted" /\ convFormat \in {BIBTEX, BIBLATEX} /\ convItems # <<>>
     /\ KeyedByIds) =>
    \A i \in 1..Len(convItems) : convKeys[i] = Key(GenerateCiteKey(convItems[i]))

\* C25, as far as it holds: when the ids differ from each other and from the
\* derived keys of the other records, every entry gets its own derived key
C25_OwnKeyForSeparateIds ==
  (pc = "converted" /\ convFormat \in {BIBTEX, BIBLATEX} /\ convItems # <<>>
     /\ KeyedByIds
     /\ \A i, j \in 1..Len(convItems) :
          i # j => /\ engineKeys[i] # engineKeys[j]
                   /\ engineKeys[i] # Key(GenerateCiteKey(convItems[j]))) =>
    \A i \in 1..Len(convItems) : convKeys[i] = Key(GenerateCiteKey(convItems[i]))

(***************************************************************************)
(* Specification SpecBracket: convertToFormat on the lists normalizeRefs   *)
(* returns                                                                 *)
(***************************************************************************)
BracketPool ==
  { \* a record with a DOI
    MkItem([type |-> ArticleType, DOI |-> Str(S_Doi), title |-> Str(S_Art),
            author |-> Names(<< [family |-> S_Doe] >>), issued |-> Date(2020, <<>>)]),
    \* the same author, year and title under another DOI
    MkItem([type |-> ArticleType, DOI |-> Str(<<"1", "/", "Y">>), title |-> Str(S_Art),
            author |-> Names(<< [family |-> S_Doe] >>), issued |-> Date(2020, <<>>)]),
    \* the same author and year, a longer title with the same first word
    MkItem([type |-> ArticleType, title |-> Str(S_Art \o <<" ", "t", "w", "o">>),
            author |-> Names(<< [family |-> S_Doe] >>), issued |-> Date(2020, <<>>)]),
    \* another title, an identifier of its own
    MkItem([type |-> BookType, id |-> Str(S_x1), title |-> Str(<<"Z","e","d">>)]),
    \* no author, year or title
    MkItem([type |-> BookType, URL |-> Str(S_Url)]) }

\* the lists normalizeRefs returns for the records of the pool
NormalizedLists ==
  { NormalizeRefs([i \in 1..Len(l) |-> DocxRef(l[i])]).items :
      l \in UNION { [1..n -> BracketPool] : n \in 0..MaxConvItems } }

InitBracket ==
  /\ pc = "convert"
  /\ RisIdle
  /\ EngineIdle
  /\ BlockIdle
  /\ HeapIdle
  /\ DecodeIdle
  /\ FileIdle
  /\ TrimIdle
  /\ TeiIdle
  /\ PdfIdle
  /\ BatchIdle
  /\ DocxIdle
  /\ KeyIdle
  /\ NormIdle
  /\ PipeIdle
  /\ CiteIdle
  /\ convItems \in NormalizedLists
  /\ convFormat \in {BIBTEX, BIBLATEX, RIS, CSL}
  /\ convMinify \in (IF convFormat = CSL THEN BOOLEAN ELSE {FALSE})
  /\ convKeys = <<>>
  /\ convText = <<>>

SpecBracket == InitBracket /\ [][NextConv]_vars

\* C30: in BibTeX or BibLaTeX output made from a list normalizeRefs returned,
\* distinct records get distinct entry keys, on the primary path after the
\* key substitution and on the manual path.
C30_DistinctEntryKeys ==
  (pc = "converted" /\ convFormat \in {BIBTEX, BIBLATEX}) =>
    \A i, j \in 1..Len(convItems) :
      convItems[i] # convItems[j] => convKeys[i] # convKeys[j]

\* C30, as far as it holds: on the manual path records with different derived
\* citation keys get different entry keys
C30_ManualKeysFollowDerivedKeys ==
  (pc = "converted" /\ convFormat \in {BIBTEX, BIBLATEX}
     /\ convKeys = ManualKeys(ItemsWithIds(convItems))) =>
    \A i, j \in 1..Len(convItems) :
      GenerateCiteKey(convItems[i]) # GenerateCiteKey(convItems[j])
        => convKeys[i] # convKeys[j]

\* the record lists a CSL-JSON text of the model can stand for
CslLists ==
  LET pool == ConvItemPool \cup
              { ItemsWithIds(<< it >>)[1] : it \in ConvItemPool }
  IN  UNION { [1..n -> pool] : n \in 0..MaxConvItems }

\* JSON.parse(text): the list that text is the serialization of
ParseCslJson(text) ==
  CHOOSE l \in CslLists :
    text \in { FormatCslJson(l, TRUE), FormatCslJson(l, FALSE) }

\* C14: parsing convertToFormat(L, CSL), pretty or minified, gives L: the
\* same records in the same order, each with exactly the fields it had; the
\* empty list gives "[]"; minified output holds no newline.
C14_RoundTrip ==
  (pc = "converted" /\ convFormat = CSL) =>
    /\ ParseCslJson(convText) = convItems
    /\ convItems = <<>> => convText = <<"[", "]">>
    /\ convMinify => \A i \in 1..Len(convText) : convText[i] # "\n"

\* C14, what the code does give: the text is the serialization of
\* itemsWithIds, that is of L with an id added to every record without one
C14_RoundTripWithIds ==
  (pc = "converted" /\ convFormat = CSL) =>
    /\ ParseCslJson(convText) = ItemsWithIds(convItems)
    /\ convItems = <<>> => convText = <<"[", "]">>
    /\ convMinify => \A i \in 1..Len(convText) : convText[i] # "\n"

(***************************************************************************)
(* Specification SpecBatch: a batch run of the command line (main,         *)
(* README.md 856-979) or of the desktop application (runExtraction,        *)
(* adapters.ts 73-199).  A file is its extension; extraction of a file     *)
(* either returns (here: one record, named by the file's position, or      *)
(* none) or throws an extraction-layer error.                              *)
(***************************************************************************)
MaxBatchFiles == 3

CLI == "cli"
DESKTOP == "desktop"

\* files.some(f => extension of f is pdf)
HasPdfs(req) == \E i \in 1..Len(req.files) : req.files[i] = "pdf"

InitBatch ==
  /\ pc = "start"
  /\ RisIdle
  /\ EngineIdle
  /\ BlockIdle
  /\ HeapIdle
  /\ DecodeIdle
  /\ FileIdle
  /\ TrimIdle
  /\ TeiIdle
  /\ PdfIdle
  /\ DocxIdle
  /\ KeyIdle
  /\ NormIdle
  /\ PipeIdle
  /\ CiteIdle
  /\ ConvIdle
  /\ request \in [app : {CLI, DESKTOP},
                  files : UNION { [1..n -> {"docx", "pdf"}] : n \in 1..MaxBatchFiles },
                  grobidUrl : BOOLEAN,
                  failOnEmpty : BOOLEAN]
  /\ grobidAvailable = FALSE
  /\ filePos = 1
  /\ attempted = {}
  /\ extracted = <<>>
  /\ allErrors = <<>>
  /\ normalized = <<>>

\* the probe before the loop answers (main 869-877, runExtraction 102-107),
\* or no probe is made
ProbeBeforeLoop ==
  /\ pc = "start"
  /\ IF HasPdfs(request) /\ request.grobidUrl
       THEN \E isAlive \in BOOLEAN :
              /\ grobidAvailable' = isAlive
              /\ pc' = IF ~isAlive /\ request.app = CLI THEN "exit1" ELSE "loop"
       ELSE /\ grobidAvailable' = FALSE
            /\ pc' = "loop"
  /\ UNCHANGED <<risVars, engineVars, blockVars, heapVars, decodeVars, fileVars, trimVars, teiVars, pdfVars, request, filePos, attempted, extracted, allErrors, normalized,
                 docxVars, keyVars, normVars, pipeVars, citeVars, convVars>>

\* the file at filePos is one the loop body extracts from
IsExtracted(req, avail, i) ==
  \/ req.files[i] = "docx"
  \/ /\ req.files[i] = "pdf"
     /\ req.grobidUrl
     /\ (req.app = DESKTOP => avail)

\* loop body: the extractor returns, with a record or with none
ExtractReturns ==
  /\ pc = "loop"
  /\ filePos <= Len(request.files)
  /\ IsExtracted(request, grobidAvailable, filePos)
  /\ \E found \in BOOLEAN :
       extracted' = IF found THEN Append(extracted, filePos) ELSE extracted
  /\ attempted' = attempted \cup {filePos}
  /\ filePos' = filePos + 1
  /\ UNCHANGED <<risVars, engineVars, blockVars, heapVars, decodeVars, fileVars, trimVars, teiVars, pdfVars, pc, request, grobidAvailable, allErrors, normalized,
                 docxVars, keyVars, normVars, pipeVars, citeVars, convVars>>

\* loop body: the extractor throws; the catch of the loop body records it
ExtractThrows ==
  /\ pc = "loop"
  /\ filePos <= Len(request.files)
  /\ IsExtracted(request, grobidAvailable, filePos)
  /\ attempted' = attempted \cup {filePos}
  /\ allErrors' = Append(allErrors, filePos)
  /\ filePos' = filePos + 1
  /\ UNCHANGED <<risVars, engineVars, blockVars, heapVars, decodeVars, fileVars, trimVars, teiVars, pdfVars, pc, request, grobidAvailable, extracted, normalized,
                 docxVars, keyVars, normVars, pipeVars, citeVars, convVars>>

\* loop body: no branch extracts from the file
SkipInput ==
  /\ pc = "loop"
  /\ filePos <= Len(request.files)
  /\ ~IsExtracted(request, grobidAvailable, filePos)
  /\ filePos' = filePos + 1
  /\ UNCHANGED <<risVars, engineVars, blockVars, heapVars, decodeVars, fileVars, trimVars, teiVars, pdfVars, pc, request, grobidAvailable, attempted, extracted, allErrors,
                 normalized, docxVars, keyVars, normVars, pipeVars, citeVars,
                 convVars>>

\* after the loop: normalizeRefs and the output (main 913-959,
\* runExtraction 153-198)
FinishBatch ==
  /\ pc = "loop"
  /\ filePos > Len(request.files)
  /\ IF request.app = CLI
       THEN /\ normalized' = << extracted >>
            /\ pc' = IF extracted # <<>> THEN "output"
                     ELSE IF request.failOnEmpty THEN "exit1" ELSE "empty"
       ELSE IF extracted = <<>>
         THEN /\ normalized' = normalized
              /\ pc' = IF request.failOnEmpty THEN "thrown" ELSE "empty"
         ELSE /\ normalized' = << extracted >>
              /\ pc' = "output"
  /\ UNCHANGED <<risVars, engineVars, blockVars, heapVars, decodeVars, fileVars, trimVars, teiVars, pdfVars, request, grobidAvailable, filePos, attempted, extracted,
                 allErrors, docxVars, keyVars, normVars, pipeVars, citeVars,
                 convVars>>

NextBatch ==
  \/ ProbeBeforeLoop
  \/ ExtractReturns
  \/ ExtractThrows
  \/ SkipInput
  \/ FinishBatch

SpecBatch == InitBatch /\ [][NextBatch]_vars

BatchEnded == pc \in {"output", "empty", "exit1", "thrown"}

\* the run ended without output although records were extracted or files
\* were never looked at
RunAborted ==
  /\ pc \in {"exit1", "thrown"}
  /\ ~(request.failOnEmpty /\ filePos > Len(request.files) /\ extracted = <<>>)

\* C15: an extraction-layer error for one file (the external parser not
\* answering included) never aborts the run: when the run has ended every
\* DOCX file was processed, and normalization and output ran on the records
\* of the files that succeeded.
C15_BatchContinues ==
  BatchEnded =>
    /\ ~RunAborted
    /\ \A i \in 1..Len(request.files) : request.files[i] = "docx" => i \in attempted
    /\ extracted # <<>> => (pc = "output" /\ normalized = << extracted >>)

\* C15, inside the loop over the files: an error thrown by the extractor
\* for one file is recorded and the loop goes on to the next file
C15_LoopContinues ==
  /\ [][ExtractThrows => (pc' = "loop" /\ filePos' = filePos + 1
                           /\ extracted' = extracted)]_vars
  /\ [](BatchEnded /\ filePos > 1 =>
          /\ filePos = Len(request.files) + 1
          /\ \A i \in 1..Len(allErrors) : allErrors[i] \in attempted
          /\ extracted # <<>> => (pc = "output" /\ normalized = << extracted >>))

(***************************************************************************)
(* Specification SpecPdf: one call of extractFromPdf (pdf.ts 46-123), a    *)
(* step per request sent, answer received and file operation.              *)
(***************************************************************************)
NoAnswer == 0            \* the request was rejected: no connection, timeout
OK == 200
BodyLimit == 200

Statuses == {NoAnswer, OK, 404, 500, 503}

\* a response body of n characters
BodyOf(n) == [i \in 1..n |-> DigitChars[(i % 10) + 1]]

BodyLengths == {0, 3, BodyLimit - 1, BodyLimit, BodyLimit + 1, BodyLimit + 3}

S_HTTP == <<"H","T","T","P"," ">>

GROBID_UNAVAILABLE == "GrobidUnavailableError"
GROBID_PROCESSING == "GrobidProcessingError"

Thrown(name, reason) ==
  [kind |-> "error", name |-> name, reason |-> reason, refs |-> <<>>,
   warnings |-> 0]
Returned(refsOut, warningCount) ==
  [kind |-> "result", name |-> "", reason |-> <<>>, refs |-> refsOut,
   warnings |-> warningCount]
Running == [kind |-> "running", name |-> "", reason |-> <<>>, refs |-> <<>>,
            warnings |-> 0]

\* checkGrobidHealth that takes any answer for success
CheckGrobidHealthAnyAnswer(status) == status # NoAnswer

\* checkGrobidHealth(baseUrl), from the outcome of its request on
CheckGrobidHealth(status) == status = OK

\* the reason without truncation of the body
HttpReasonWholeBody(status, text) == S_HTTP \o NumToStr(status) \o <<":", " ">> \o text

\* `HTTP ${response.statusCode}: ${body.substring(0, 200)}`
HttpReason(status, text) ==
  S_HTTP \o NumToStr(status) \o <<":", " ">>
  \o SubSeq(text, 1, IF Len(text) < BodyLimit THEN Len(text) ELSE BodyLimit)

\* the biblStruct elements a TEI document may carry: those of
\* PipeBiblStructs, an article outside any container, and an entry whose
\* analytic part has no title
PdfBiblStructs ==
  PipeBiblStructs \cup
  { [analytic |-> Part(Str(S_Art \o <<" ">>), <<>>), monogr |-> NoPart, idno |-> <<>>],
    [analytic |-> Part(Str(<<" ">>), <<>>),
     monogr |-> Part(Str(<<"B","k">>), DoiIdno), idno |-> <<>>] }

InitPdf ==
  /\ pc = "call"
  /\ RisIdle
  /\ EngineIdle
  /\ BlockIdle
  /\ HeapIdle
  /\ DecodeIdle
  /\ FileIdle
  /\ TrimIdle
  /\ DocxIdle
  /\ KeyIdle
  /\ NormIdle
  /\ PipeIdle
  /\ CiteIdle
  /\ ConvIdle
  /\ BatchIdle
  /\ pdfFile \in {"a.pdf", "b.pdf"}
  /\ probes = 0
  /\ probeStatus = NoAnswer
  /\ requests = 0
  /\ procStatus = NoAnswer
  /\ procBody = <<>>
  /\ pdfResult = Running
  /\ teiBiblStructs = <<>>

\* checkGrobidHealth: request(`${baseUrl}/api/isalive`)
SendProbe ==
  /\ pc = "call"
  /\ probes' = probes + 1
  /\ pc' = "probing"
  /\ UNCHANGED <<risVars, engineVars, blockVars, heapVars, decodeVars, fileVars, trimVars, teiVars, pdfFile, probeStatus, requests, procStatus, procBody, pdfResult,
                 docxVars, keyVars, normVars, pipeVars, citeVars, convVars,
                 batchVars>>

\* checkGrobidHealth returns; extractFromPdf throws when !isAlive
ProbeAnswered ==
  /\ pc = "probing"
  /\ \E status \in Statuses :
       /\ probeStatus' = status
       /\ IF CheckGrobidHealth(status)
            THEN pc' = "stat" /\ pdfResult' = pdfResult
            ELSE /\ pc' = "thrown"
                 /\ pdfResult' = Thrown(GROBID_UNAVAILABLE,
                                        <<"S","e","r","v","i","c","e"," ","n","o","t"," ",
                                          "r","e","s","p","o","n","d","i","n","g">>)
  /\ UNCHANGED <<risVars, engineVars, blockVars, heapVars, decodeVars, fileVars, trimVars, teiVars, pdfFile, probes, requests, procStatus, procBody,
                 docxVars, keyVars, normVars, pipeVars, citeVars, convVars,
                 batchVars>>

S_io == <<"E","I","O">>

\* statSync(filePath), outside the try block, then readFileAsBuffer inside
ReadFile ==
  /\ pc = "stat"
  /\ \E outcome \in {"ok", "statFails", "readFails"} :
       CASE outcome = "ok" -> pc' = "ready" /\ pdfResult' = pdfResult
         [] outcome = "statFails" ->
              pc' = "thrown" /\ pdfResult' = Thrown("Error", S_io)
         [] outcome = "readFails" ->
              pc' = "thrown" /\ pdfResult' = Thrown(GROBID_PROCESSING, S_io)
  /\ UNCHANGED <<risVars, engineVars, blockVars, heapVars, decodeVars, fileVars, trimVars, teiVars, pdfFile, probes, probeStatus, requests, procStatus, procBody,
                 docxVars, keyVars, normVars, pipeVars, citeVars, convVars,
                 batchVars>>

\* request(`${baseUrl}/api/processReferences`, ...)
SendProcess ==
  /\ pc = "ready"
  /\ requests' = requests + 1
  /\ pc' = "processing"
  /\ UNCHANGED <<risVars, engineVars, blockVars, heapVars, decodeVars, fileVars, trimVars, teiVars, pdfFile, probes, probeStatus, procStatus, procBody, pdfResult,
                 docxVars, keyVars, normVars, pipeVars, citeVars, convVars,
                 batchVars>>

\* the processing request is rejected, or the body of its response cannot
\* be read: the catch wraps the error
ProcessFails ==
  /\ pc = "processing"
  /\ procStatus' \in Statuses
  /\ procBody' = <<>>
  /\ pdfResult' = Thrown(GROBID_PROCESSING, S_io)
  /\ pc' = "thrown"
  /\ UNCHANGED <<risVars, engineVars, blockVars, heapVars, decodeVars, fileVars, trimVars, teiVars, pdfFile, probes, probeStatus, requests,
                 docxVars, keyVars, normVars, pipeVars, citeVars, convVars,
                 batchVars>>

\* the processing request is answered with a status other than 200
ProcessRefused ==
  /\ pc = "processing"
  /\ \E status \in Statuses \ {NoAnswer, OK}, n \in BodyLengths :
       /\ procStatus' = status
       /\ procBody' = BodyOf(n)
       /\ pdfResult' = Thrown(GROBID_PROCESSING, HttpReason(status, BodyOf(n)))
  /\ pc' = "thrown"
  /\ UNCHANGED <<risVars, engineVars, blockVars, heapVars, decodeVars, fileVars, trimVars, teiVars, pdfFile, probes, probeStatus, requests,
                 docxVars, keyVars, normVars, pipeVars, citeVars, convVars,
                 batchVars>>

\* the processing request is answered with 200 and an empty or blank body
ProcessedBlank ==
  /\ pc = "processing"
  /\ procStatus' = OK
  /\ procBody' \in { <<>>, <<" ", "\n">> }
  /\ pdfResult' = Returned(<<>>, 1)
  /\ pc' = "returned"
  /\ UNCHANGED <<risVars, engineVars, blockVars, heapVars, decodeVars, fileVars, trimVars, teiVars, pdfFile, probes, probeStatus, requests,
                 docxVars, keyVars, normVars, pipeVars, citeVars, convVars,
                 batchVars>>

\* the processing request is answered with 200 and a TEI document, given
\* here by its biblStruct elements
ProcessedTei ==
  /\ pc = "processing"
  /\ procStatus' = OK
  /\ \E l \in UNION { [1..n -> PdfBiblStructs] : n \in 0..2 } :
       /\ procBody' = <<"<", "T", "E", "I", ">">>
       /\ teiBiblStructs' = l
       /\ pdfResult' = IF ParseTeiToCsl(l) = <<>> THEN Returned(<<>>, 1)
                       ELSE Returned(ParseTeiToCsl(l), 0)
  /\ pc' = "returned"
  /\ UNCHANGED <<risVars, engineVars, blockVars, heapVars, decodeVars, fileVars, trimVars, pdfFile, probes, probeStatus, requests,
                 docxVars, keyVars, normVars, pipeVars, citeVars, convVars,
                 batchVars>>

NextPdf ==
  \/ SendProbe
  \/ ProbeAnswered
  \/ ReadFile
  \/ SendProcess
  \/ ProcessFails
  \/ ProcessRefused
  \/ ProcessedBlank
  \/ ProcessedTei

SpecPdf == InitPdf /\ [][NextPdf]_vars

\* C16: the processing request is sent only after the probe of the same call
\* was answered with status 200; a probe that fails or is answered otherwise
\* ends the call with the service-unavailable error and without processing
\* request; a call sends at most one probe and one processing request.
C16_ProbeBeforeProcess ==
  /\ [][requests' > requests => (probes = 1 /\ probeStatus = OK)]_vars
  /\ [](probes <= 1 /\ requests <= 1)
  /\ []((pc \notin {"call", "probing"} /\ probeStatus # OK) =>
          /\ pc = "thrown"
          /\ pdfResult.kind = "error"
          /\ pdfResult.name = GROBID_UNAVAILABLE
          /\ requests = 0)

\* witness of C16: the probe was answered 200 and the one processing
\* request was sent
C16_Witness ==
  /\ pc = "processing"
  /\ probes = 1
  /\ probeStatus = OK
  /\ requests = 1

TitleAt(part) ==
  IF part = <<>> THEN <<>>
  ELSE IF part[1].title.t = "str" THEN Trim(part[1].title.s) ELSE <<>>

\* the entry has a title at the analytic or at the monograph level
HasTitle(bibl) == TitleAt(bibl.analytic) # <<>> \/ TitleAt(bibl.monogr) # <<>>

TrimTitles == { Undef, Str(<<"A">>), Str(<<" ", "A", " ", "b", " ">>), Str(<<" ">>) }
TrimAuthors ==
  { Undef,
    Names(<< [family |-> <<" ", "D", "o", "e">>, given |-> <<"J", " ">>] >>),
    Names(<< [literal |-> <<"W", " ", "H">>], [family |-> <<"\t", "R", "o", "e", "\n">>] >>) }
TrimDates ==
  { Undef,
    Date(1999, <<>>),
    Date(0, <<"1", "9", "9", "9">>),
    Date(0, <<" ", "1", "9", "9", "9", " ">>) }
TrimVolumes == { Undef, Num(4), Str(<<" ", "4">>) }

InitTrim ==
  /\ pc = "trim"
  /\ RisIdle
  /\ EngineIdle
  /\ BlockIdle
  /\ HeapIdle
  /\ DecodeIdle
  /\ FileIdle
  /\ TeiIdle
  /\ PdfIdle
  /\ BatchIdle
  /\ ConvIdle
  /\ CiteIdle
  /\ DocxIdle
  /\ KeyIdle
  /\ NormIdle
  /\ PipeIdle
  /\ \E t \in TrimTitles, a \in TrimAuthors, d \in TrimDates, v \in TrimVolumes :
       trimIn = MkItem([type |-> BookType, title |-> t, author |-> a, issued |-> d,
                        volume |-> v])
  /\ trimOut = <<>>
  /\ trimTwice = <<>>

\* trimOut = trimItem(trimIn); the argument is read only
TrimItemCall ==
  /\ pc = "trim"
  /\ trimOut' = TrimItem(trimIn)
  /\ pc' = "trimmed"
  /\ UNCHANGED <<risVars, engineVars, blockVars, heapVars, decodeVars, fileVars, trimIn, trimTwice, teiVars, pdfVars, batchVars, convVars, citeVars,
                 docxVars, keyVars, normVars, pipeVars>>

\* trimTwice = trimItem(trimOut)
TrimItemAgain ==
  /\ pc = "trimmed"
  /\ trimTwice' = TrimItem(trimOut)
  /\ pc' = "retrimmed"
  /\ UNCHANGED <<risVars, engineVars, blockVars, heapVars, decodeVars, fileVars, trimIn, trimOut, teiVars, pdfVars, batchVars, convVars, citeVars,
                 docxVars, keyVars, normVars, pipeVars>>

NextTrim ==
  \/ TrimItemCall
  \/ TrimItemAgain

SpecTrim == InitTrim /\ [][NextTrim]_vars

\* s has no whitespace at either end
IsTrimmed(s) == s = <<>> \/ (~IsSpace(s[1]) /\ ~IsSpace(s[Len(s)]))

\* every string held by the value v, at any depth, is trimmed
StringsTrimmed(v) ==
  CASE v.t = "str" -> IsTrimmed(v.s)
    [] v.t = "names" ->
         \A i \in 1..Len(v.a) : \A k \in DOMAIN v.a[i] : IsTrimmed(v.a[i][k])
    [] v.t = "date" -> IsTrimmed(v.s)
    [] v.t = "datestr" -> IsTrimmed(v.s)
    [] OTHER -> TRUE

\* C19: in the result of trimItem every string is trimmed, those of the
\* person names and those nested in another field included; every value that
\* is not a string is passed through unchanged; the argument is not modified
\* and a second application changes nothing.
C19_EveryStringTrimmed ==
  pc \in {"trimmed", "retrimmed"} =>
    /\ DOMAIN trimOut = DOMAIN trimIn
    /\ \A k \in DOMAIN trimOut :
         /\ StringsTrimmed(trimOut[k])
         /\ trimIn[k].t \in {"num", "null"} => trimOut[k] = trimIn[k]
    /\ pc = "retrimmed" => trimTwice = trimOut

\* C19, for the strings trimItem reaches: the string properties of the record
\* and of the objects in its arrays are trimmed, every other value is passed
\* through as it is, and a second application changes nothing.
C19_ReachedStringsTrimmed ==
  pc \in {"trimmed", "retrimmed"} =>
    /\ DOMAIN trimOut = DOMAIN trimIn
    /\ \A k \in DOMAIN trimOut :
         /\ trimIn[k].t \in {"str", "names"} => StringsTrimmed(trimOut[k])
         /\ trimIn[k].t = "str" => trimOut[k] = Str(Trim(trimIn[k].s))
         /\ trimIn[k].t \notin {"str", "names"} => trimOut[k] = trimIn[k]
    /\ pc = "retrimmed" => trimTwice = trimOut

(***************************************************************************)
(* Specification SpecFile: extractFromDocx over the XML parts of one       *)
(* archive, one part per step (docx.ts 32-97)                              *)
(***************************************************************************)
MaxParts == 2

WORD_BOOKMARKS_DETECTED == "Word bookmark-style citations detected"
NO_ZOTERO_FIELDS == "No Zotero/Mendeley citation fields found"

\* the elements of an XML part that the extraction looks at
BookmarkStart(name) == [tag |-> "w:bookmarkStart", name |-> name, payload |-> <<>>]
Sources == [tag |-> "b:Sources", name |-> <<>>, payload |-> <<>>]
TextRun == [tag |-> "w:t", name |-> <<>>, payload |-> <<>>]
Field(citation) == [tag |-> "w:instrText", name |-> <<>>, payload |-> << citation >>]

\* /<w:bookmarkStart[^>]*w:name="_Ref/.test(xmlContent)
WORD_BOOKMARK_PATTERN(xmlContent) ==
  \E i \in 1..Len(xmlContent) :
    /\ xmlContent[i].tag = "w:bookmarkStart"
    /\ StartsWithAt(xmlContent[i].name, <<"_", "R", "e", "f">>, 1)

\* /<b:Sources/.test(xmlContent)
WORD_BIBLIOGRAPHY_PATTERN(xmlContent) ==
  \E i \in 1..Len(xmlContent) : xmlContent[i].tag = "b:Sources"

\* the citation payloads of the fields of a part, in order
RECURSIVE FieldPayloads(_)
FieldPayloads(xmlContent) ==
  IF xmlContent = <<>> THEN <<>>
  ELSE Head(xmlContent).payload \o FieldPayloads(Tail(xmlContent))

\* extractCitationsFromXml(xmlContent, sourceFile)
ExtractCitationsFromXml(xmlContent) == ExtractFromDocx(FieldPayloads(xmlContent))

\* the warnings of a file in which only the bookmark pattern counts
WarningsBookmarksOnly(citations, bookmarks, bibliography) ==
  IF citations THEN <<>>
  ELSE IF bookmarks THEN << WORD_BOOKMARKS_DETECTED >>
  ELSE << NO_ZOTERO_FIELDS >>

\* the warnings pushed after the loop
Warnings(citations, bookmarks, bibliography) ==
  IF citations THEN <<>>
  ELSE IF bookmarks THEN << WORD_BOOKMARKS_DETECTED >>
  ELSE IF bibliography THEN << WORD_BOOKMARKS_DETECTED >>
  ELSE << NO_ZOTERO_FIELDS >>

\* a citation with one record, and one whose only item carries no itemData
CitationOfOne ==
  [citationItems |->
     << [itemData |-> << MkItem([type |-> ArticleType, title |-> Str(S_Art)]) >>] >>]
CitationOfNone == [citationItems |-> << [itemData |-> <<>>] >>]

\* the XML parts an archive may hold
FileParts ==
  { << TextRun >>,
    << BookmarkStart(<<"_", "R", "e", "f", "1">>) >>,
    << BookmarkStart(<<"_", "G", "o", "B", "a", "c", "k">>) >>,
    << Sources >>,
    << Field(CitationOfOne) >>,
    << Field(CitationOfNone) >>,
    << BookmarkStart(<<"_", "R", "e", "f", "1">>), Field(CitationOfOne) >>,
    << Sources, Field(CitationOfNone) >>,
    << TextRun, Field(CitationOfOne), Sources, Field(CitationOfOne) >>,
    << Field(SyntaxError) >>,
    << Field(CitationOfOne), Field(SyntaxError), Field(CitationOfOne) >> }

InitFile ==
  /\ pc = "entries"
  /\ RisIdle
  /\ EngineIdle
  /\ BlockIdle
  /\ HeapIdle
  /\ DecodeIdle
  /\ TrimIdle
  /\ TeiIdle
  /\ PdfIdle
  /\ BatchIdle
  /\ ConvIdle
  /\ CiteIdle
  /\ DocxIdle
  /\ KeyIdle
  /\ NormIdle
  /\ PipeIdle
  /\ xmlEntries \in UNION { [1..n -> FileParts] : n \in 0..MaxParts }
  /\ entryPos = 1
  /\ docRefs = <<>>
  /\ hasCitations = FALSE
  /\ hasWordBookmarks = FALSE
  /\ hasWordBibliography = FALSE
  /\ docWarnings = <<>>

\* xmlEntries.length === 0: DocxParseError
NoEntries ==
  /\ pc = "entries"
  /\ xmlEntries = <<>>
  /\ pc' = "thrown"
  /\ UNCHANGED <<risVars, engineVars, blockVars, heapVars, decodeVars, fileVars, trimVars, teiVars, pdfVars, batchVars, convVars, citeVars,
                 docxVars, keyVars, normVars, pipeVars>>

\* one turn of the loop over xmlEntries
ExtractEntry ==
  /\ pc = "entries"
  /\ entryPos <= Len(xmlEntries)
  /\ LET xmlContent == xmlEntries[entryPos]
         citations == ExtractCitationsFromXml(xmlContent)
     IN  /\ hasWordBookmarks' = (hasWordBookmarks \/ WORD_BOOKMARK_PATTERN(xmlContent))
         /\ hasWordBibliography' =
              (hasWordBibliography \/ WORD_BIBLIOGRAPHY_PATTERN(xmlContent))
         /\ hasCitations' = (hasCitations \/ Len(citations) > 0)
         /\ docRefs' = docRefs \o citations
  /\ entryPos' = entryPos + 1
  /\ UNCHANGED <<risVars, engineVars, blockVars, heapVars, decodeVars, pc, xmlEntries, docWarnings, trimVars, teiVars, pdfVars, batchVars,
                 convVars, citeVars, docxVars, keyVars, normVars, pipeVars>>

\* after the loop: the warnings, then the result
ReturnResult ==
  /\ pc = "entries"
  /\ xmlEntries # <<>>
  /\ entryPos > Len(xmlEntries)
  /\ docWarnings' = Warnings(hasCitations, hasWordBookmarks, hasWordBibliography)
  /\ pc' = "returned"
  /\ UNCHANGED <<risVars, engineVars, blockVars, heapVars, decodeVars, xmlEntries, entryPos, docRefs, hasCitations, hasWordBookmarks,
                 hasWordBibliography, trimVars, teiVars, pdfVars, batchVars, convVars,
                 citeVars, docxVars, keyVars, normVars, pipeVars>>

NextFile ==
  \/ NoEntries
  \/ ExtractEntry
  \/ ReturnResult

SpecFile == InitFile /\ [][NextFile]_vars

\* a Word bookmark or a Word bibliography is found in some part
WordCitationsSeen ==
  \E i \in 1..Len(xmlEntries) :
    \/ WORD_BOOKMARK_PATTERN(xmlEntries[i])
    \/ WORD_BIBLIOGRAPHY_PATTERN(xmlEntries[i])

\* C20: in every result of extractFromDocx hasCitations is true exactly when
\* refs is non-empty; with records there is no warning; without records
\* there is exactly one warning, the bookmark/native-bibliography diagnostic
\* if a Word bookmark or Word bibliography was seen in any part and the
\* "No Zotero/Mendeley citation fields found" diagnostic otherwise.
C20_Diagnostics ==
  pc = "returned" =>
    /\ hasCitations <=> docRefs # <<>>
    /\ docRefs # <<>> => docWarnings = <<>>
    /\ docRefs = <<>> =>
         docWarnings = << IF WordCitationsSeen THEN WORD_BOOKMARKS_DETECTED
                          ELSE NO_ZOTERO_FIELDS >>

\* witness of C20: no records, a Word bibliography in the second part and no
\* bookmark anywhere
C20_Witness ==
  /\ pc = "returned"
  /\ Len(xmlEntries) = 2
  /\ docRefs = <<>>
  /\ ~hasWordBookmarks
  /\ WORD_BIBLIOGRAPHY_PATTERN(xmlEntries[2])
  /\ docWarnings = << WORD_BOOKMARKS_DETECTED >>

\* the payloads of all the parts, in order
RECURSIVE PayloadsOfParts(_)
PayloadsOfParts(parts) ==
  IF parts = <<>> THEN <<>>
  ELSE FieldPayloads(Head(parts)) \o PayloadsOfParts(Tail(parts))

\* the records of payloads that are all JSON
RECURSIVE RecordsOfParsed(_)
RecordsOfParsed(payloads) ==
  IF payloads = <<>> THEN <<>>
  ELSE ParseCitationJson(Head(payloads)) \o RecordsOfParsed(Tail(payloads))

\* C24: a span that JSON.parse rejects contributes no record and nothing
\* else changes: extractFromDocx returns the records of every other span of
\* the same part and of the other parts, in order, and throws only for an
\* archive without parts.
C24_ParseFailureIsLocal ==
  /\ pc = "thrown" => xmlEntries = <<>>
  /\ pc = "returned" =>
       docRefs = RecordsOfParsed(SelectSeq(PayloadsOfParts(xmlEntries),
                                           LAMBDA c : c # SyntaxError))

\* witness of C24: two parts; in one a failing span stands between two spans
\* with a record each, the other part has one record
C24_Witness ==
  /\ pc = "returned"
  /\ Len(xmlEntries) = 2
  /\ FieldPayloads(xmlEntries[1]) = << CitationOfOne, SyntaxError, CitationOfOne >>
  /\ FieldPayloads(xmlEntries[2]) = << CitationOfOne >>
  /\ Len(docRefs) = 3

(***************************************************************************)
(* Specification SpecDecode: parseCitationJson on one payload              *)
(* (docx.ts 255-334)                                                       *)
(***************************************************************************)
\* the itemData objects of the citation items given to the decoder
DecodeItemData ==
  { \* passes the record schema
    MkItem([type |-> BookType, title |-> Str(S_Art)]),
    \* passes the record schema with an empty type
    MkItem([type |-> Str(<<>>), title |-> Str(S_Art)]),
    \* no type
    MkItem([title |-> Str(S_Art)]),
    \* a null volume, which the record schema rejects
    MkItem([type |-> BookType, volume |-> Null]),
    \* a number as type and as title
    MkItem([type |-> Num(5), title |-> Num(7)]) }

\* the citation items: without itemData, with itemData, and with itemData
\* beside a locator that is a number
DecodeCitationItems ==
  { [itemData |-> <<>>] }
  \cup { [itemData |-> << d >>] : d \in DecodeItemData }
  \cup { [itemData |-> << MkItem([type |-> BookType, title |-> Str(S_Art)]) >>,
           locator |-> Num(3)] }

\* the values JSON.parse gives for a payload
DecodePayloads ==
  { [schema |-> <<"c", "s", "l">>],
    [citationID |-> Num(1)] }
  \cup { [citationItems |-> l] :
           l \in UNION { [1..n -> DecodeCitationItems] : n \in 0..2 } }
  \cup { [citationID |-> id, citationItems |-> l] :
           id \in { Str(<<"x", "1">>), Num(1) },
           l \in UNION { [1..n -> DecodeCitationItems] : n \in 1..2 } }

\* the records with the file they were read from
WithSourceFile(refsOut, file) ==
  [i \in 1..Len(refsOut) |->
     [item |-> refsOut[i].item, source |-> refsOut[i].source, sourceFile |-> file]]

InitDecode ==
  /\ pc = "payload"
  /\ RisIdle
  /\ EngineIdle
  /\ BlockIdle
  /\ HeapIdle
  /\ FileIdle
  /\ TrimIdle
  /\ TeiIdle
  /\ PdfIdle
  /\ BatchIdle
  /\ ConvIdle
  /\ CiteIdle
  /\ DocxIdle
  /\ KeyIdle
  /\ NormIdle
  /\ PipeIdle
  /\ citationJson \in DecodePayloads \cup {SyntaxError}
  /\ sourceFile \in {"a.docx", "b.docx"}
  /\ decoded = <<>>

\* JSON.parse(jsonStr) throws: JsonParseError
ParseThrows ==
  /\ pc = "payload"
  /\ citationJson = SyntaxError
  /\ pc' = "thrown"
  /\ UNCHANGED <<risVars, engineVars, blockVars, heapVars, decodeVars, fileVars, trimVars, teiVars, pdfVars, batchVars, convVars,
                 citeVars, docxVars, keyVars, normVars, pipeVars>>

\* parseCitationJson returns its records
ParseReturns ==
  /\ pc = "payload"
  /\ citationJson # SyntaxError
  /\ decoded' = WithSourceFile(ParseCitationJson(citationJson), sourceFile)
  /\ pc' = "decoded"
  /\ UNCHANGED <<risVars, engineVars, blockVars, heapVars, citationJson, sourceFile, fileVars, trimVars, teiVars, pdfVars, batchVars,
                 convVars, citeVars, docxVars, keyVars, normVars, pipeVars>>

NextDecode ==
  \/ ParseThrows
  \/ ParseReturns

SpecDecode == InitDecode /\ [][NextDecode]_vars

(***************************************************************************)
(* Specification SpecAccepted: the records parseCitationJson accepts are   *)
(* given to normalizeRefs and the returned records to generateCiteKey      *)
(* (docx.ts 255-334, normalize.ts, citationJs.ts).  A method of String     *)
(* called on a value that is no string, and a property read on null, throw *)
(* a TypeError.                                                            *)
(***************************************************************************)
\* normalizeTitle(item.title || '') and getFirstTitleWord(item.title || '')
\* throw: title.toLowerCase is not a function
TitleThrows(item) ==
  Truthy(Get(item, "title")) /\ Get(item, "title").t # "str"

\* getFirstAuthorFamily(item) throws: item.author[0] is null, and
\* first.family reads a property of null
GetFirstAuthorFamilyThrows(item) ==
  LET author == Get(item, "author") IN
  /\ author.t = "array"
  /\ Len(author.a) > 0
  /\ author.a[1].t = "null"

\* generateDedupeKey(item) throws; extractYear throws for none of the values
\* of issued modelled here
GenerateDedupeKeyThrows(item) ==
  IF Truthy(Get(item, "DOI")) THEN Get(item, "DOI").t # "str"
  ELSE IF Truthy(Get(item, "URL")) THEN Get(item, "URL").t # "str"
  ELSE TitleThrows(item) \/ GetFirstAuthorFamilyThrows(item)

\* deduplicateItems(list) throws: the key of every record is computed,
\* mergeItems and the Map throw nothing
DeduplicateItemsThrows(list) ==
  \E i \in 1..Len(list) : GenerateDedupeKeyThrows(list[i].item)

\* the comparator of sortItems throws on a and b: both first authors are
\* read, the titles only when authors and years tie
CompareItemsThrows(a, b) ==
  \/ GetFirstAuthorFamilyThrows(a)
  \/ GetFirstAuthorFamilyThrows(b)
  \/ /\ GetFirstAuthorFamily(a) = GetFirstAuthorFamily(b)
     /\ ExtractYear(a) = ExtractYear(b)
     /\ TitleThrows(a) \/ TitleThrows(b)

\* sortItems(list) throws whatever pairs the engine's sort compares: with
\* two or more entries every entry is compared at least once
SortItemsMustThrow(list) ==
  /\ Len(list) >= 2
  /\ \/ \E i \in 1..Len(list) : GetFirstAuthorFamilyThrows(list[i])
     \/ \A i, j \in 1..Len(list) : i # j => CompareItemsThrows(list[i], list[j])

\* sortItems(list) throws for some choice of the pairs compared
SortItemsMayThrow(list) ==
  \E i, j \in 1..Len(list) : i # j /\ CompareItemsThrows(list[i], list[j])

\* unique.map(trimItem) in normalizeRefs
TrimmedUnique(list) ==
  LET d == DeduplicateItems(list)
  IN  [i \in 1..Len(d.unique) |-> TrimItem(d.unique[i])]

\* generateCiteKey(item) throws
GenerateCiteKeyThrows(item) ==
  GetFirstAuthorFamilyThrows(item) \/ TitleThrows(item)

\* the itemData objects of the citation items
AcceptedItemData ==
  { \* passes the record schema
    MkItem([type |-> BookType, DOI |-> Str(S_Doi), title |-> Str(S_Art)]),
    \* a number as DOI
    MkItem([type |-> BookType, DOI |-> Num(5)]),
    \* a number as URL
    MkItem([type |-> BookType, URL |-> Num(5), title |-> Str(S_Art)]),
    \* a number as title beside a DOI
    MkItem([type |-> BookType, DOI |-> Str(S_Doi), title |-> Num(7)]),
    \* a number as title and nothing else to build the key from
    MkItem([type |-> BookType, title |-> Num(7)]),
    \* an author list holding null, beside a URL
    MkItem([type |-> BookType, URL |-> Str(S_Url), author |-> Array(<< Null >>)]),
    \* numbers as author and as issued
    MkItem([type |-> BookType, title |-> Str(S_Art), author |-> Num(5),
            issued |-> Num(2020)]),
    \* a null volume
    MkItem([type |-> BookType, title |-> Str(<<"B", "k">>), volume |-> Null]) }

AcceptedPayloads ==
  { [citationItems |-> [i \in 1..Len(l) |-> [itemData |-> << l[i] >>]]] :
      l \in UNION { [1..n -> AcceptedItemData] : n \in 0..MaxRefs } }

InitAccepted ==
  /\ pc = "payload"
  /\ RisIdle
  /\ EngineIdle
  /\ BlockIdle
  /\ HeapIdle
  /\ FileIdle
  /\ TrimIdle
  /\ TeiIdle
  /\ PdfIdle
  /\ BatchIdle
  /\ ConvIdle
  /\ CiteIdle
  /\ DocxIdle
  /\ KeyIdle
  /\ NormIdle
  /\ PipeIdle
  /\ citationJson \in AcceptedPayloads
  /\ sourceFile = "a.docx"
  /\ decoded = <<>>

\* normalizeRefs(refs) throws a TypeError
NormalizeRefsThrows ==
  /\ pc = "decoded"
  /\ IF DeduplicateItemsThrows(decoded) THEN TRUE
     ELSE SortItemsMayThrow(TrimmedUnique(decoded))
  /\ pc' = "normalizeThrown"
  /\ UNCHANGED <<risVars, engineVars, blockVars, heapVars, decodeVars, fileVars, trimVars, teiVars, pdfVars, batchVars, convVars,
                 citeVars, docxVars, keyVars, normVars, pipeVars>>

\* normalizeRefs(refs) returns
NormalizeRefsReturns ==
  /\ pc = "decoded"
  /\ ~DeduplicateItemsThrows(decoded)
  /\ ~SortItemsMustThrow(TrimmedUnique(decoded))
  /\ items' = NormalizeRefs(decoded).items
  /\ duplicatesRemoved' = NormalizeRefs(decoded).duplicatesRemoved
  /\ pc' = "normalized"
  /\ UNCHANGED <<risVars, engineVars, blockVars, heapVars, decodeVars, fileVars, trimVars, teiVars, pdfVars, batchVars, convVars,
                 citeVars, docxVars, keyVars, refs, idx, seenKeys, seenVals, origin, unique, sortIn, pipeVars>>

\* generateCiteKey throws a TypeError on one of the returned records
GenerateCiteKeyThrown ==
  /\ pc = "normalized"
  /\ \E i \in 1..Len(items) : GenerateCiteKeyThrows(items[i])
  /\ pc' = "citeKeyThrown"
  /\ UNCHANGED <<risVars, engineVars, blockVars, heapVars, decodeVars, fileVars, trimVars, teiVars, pdfVars, batchVars, convVars,
                 citeVars, docxVars, keyVars, normVars, pipeVars>>

\* generateCiteKey returns for every returned record
GenerateCiteKeyReturned ==
  /\ pc = "normalized"
  /\ \A i \in 1..Len(items) : ~GenerateCiteKeyThrows(items[i])
  /\ citeKey' = [i \in 1..Len(items) |-> GenerateCiteKey(items[i])]
  /\ pc' = "keyed"
  /\ UNCHANGED <<risVars, engineVars, blockVars, heapVars, decodeVars, fileVars, trimVars, teiVars, pdfVars, batchVars, convVars,
                 citeItem, citeYear, docxVars, keyVars, normVars, pipeVars>>

NextAccepted ==
  \/ ParseReturns
  \/ NormalizeRefsThrows
  \/ NormalizeRefsReturns
  \/ GenerateCiteKeyThrown
  \/ GenerateCiteKeyReturned

SpecAccepted == InitAccepted /\ [][NextAccepted]_vars

\* C28: normalizeRefs and generateCiteKey never throw on the records the DOCX
\* extractor accepts, also not on records accepted by the relaxed fallback
\* whose DOI, URL, title, author or issued is of another type than the
\* schema's
C28_NeverThrows ==
  pc \notin {"normalizeThrown", "citeKeyThrown"}

\* the part of C28 that holds: neither call throws when every accepted record
\* passes the record schema
C28_SchemaRecordsNeverThrow ==
  (\A i \in 1..Len(decoded) : CslItemSchemaOk(decoded[i].item))
    => pc \notin {"normalizeThrown", "citeKeyThrown"}

\* the citation items of the payload, none when it has no items array
ItemsOf(payload) ==
  IF "citationItems" \in DOMAIN payload THEN payload.citationItems ELSE <<>>

\* the citation item is accepted, as the two tiers are described
Accepted(payload, citationItem) ==
  /\ citationItem.itemData # <<>>
  /\ IF ZoteroCitationSchemaOk(payload)
       THEN CslItemSchemaOk(citationItem.itemData[1])
       ELSE Truthy(Get(citationItem.itemData[1], "type"))

\* C21: when the payload passes the citation schema, the items whose itemData
\* passes the record schema are accepted; when validation fails, an item is
\* accepted exactly when the payload has an items array and the itemData has
\* a non-empty type; every accepted record carries source 'docx-citation'
\* and the source file; only a text that is not JSON makes the call throw.
C21_TwoTier ==
  /\ pc = "thrown" => citationJson = SyntaxError
  /\ pc = "decoded" =>
       LET kept == SelectSeq(ItemsOf(citationJson), LAMBDA c : Accepted(citationJson, c))
       IN  /\ Len(decoded) = Len(kept)
           /\ \A i \in 1..Len(decoded) :
                /\ decoded[i].item = kept[i].itemData[1]
                /\ decoded[i].source = "docx-citation"
                /\ decoded[i].sourceFile = sourceFile

\* witness of C21: validation fails for a payload of two items; the item
\* whose type is a number is accepted, the item without a type is not
C21_Witness ==
  /\ pc = "decoded"
  /\ ~ZoteroCitationSchemaOk(citationJson)
  /\ Len(ItemsOf(citationJson)) = 2
  /\ Len(decoded) = 1
  /\ Get(decoded[1].item, "type") = Num(5)

(***************************************************************************)
(* Specification SpecHeap: normalizeRefs with item objects held by         *)
(* address, so that a write through a shared reference shows               *)
(* (README.md 1188-1229, 1304-1323)                                        *)
(***************************************************************************)
\* seen.set(key, ref.item): the Map holds the object of the argument itself
ShareItem(h, addr) == [heap |-> h, addr |-> addr]

\* { ...ref.item }: a new object with the properties of the object at addr
CloneItem(h, addr) == [heap |-> Append(h, h[addr]), addr |-> Len(h) + 1]

\* the objects made by unique.map(trimItem), appended to the heap
RECURSIVE TrimAll(_, _)
TrimAll(h, addrs) ==
  IF addrs = <<>> THEN h
  ELSE TrimAll(Append(h, TrimItem(h[Head(addrs)])), Tail(addrs))

\* position in a list of addresses of the address of item, counted from the
\* first position on
RECURSIVE PlaceOf(_, _, _)
PlaceOf(sorted, list, h) ==
  IF sorted = <<>> THEN <<>>
  ELSE LET hits == { i \in 1..Len(list) : h[list[i]] = Head(sorted) }
           first == SetMin(hits)
       IN  << list[first] >>
           \o PlaceOf(Tail(sorted), [i \in 1..Len(list) - 1 |->
                                        IF i < first THEN list[i] ELSE list[i + 1]], h)

InitHeap ==
  /\ pc = "dedupe"
  /\ RisIdle
  /\ EngineIdle
  /\ BlockIdle
  /\ DecodeIdle
  /\ FileIdle
  /\ TrimIdle
  /\ TeiIdle
  /\ PdfIdle
  /\ BatchIdle
  /\ ConvIdle
  /\ CiteIdle
  /\ DocxIdle
  /\ KeyIdle
  /\ NormIdle
  /\ PipeIdle
  /\ heap \in RefLists
  /\ heapRefs = [i \in 1..Len(heap) |-> [item |-> i, source |-> "docx-citation"]]
  /\ given = heap
  /\ heapPos = 1
  /\ seenMap = <<>>
  /\ returned = <<>>

\* deduplicateItems, loop body, !seen.has(key): seen.set(key, { ...ref.item })
HeapFirstSeen ==
  /\ pc = "dedupe"
  /\ heapPos <= Len(heapRefs)
  /\ LET key == GenerateDedupeKey(heap[heapRefs[heapPos].item])
         clone == CloneItem(heap, heapRefs[heapPos].item)
     IN  /\ \A p \in 1..Len(seenMap) : seenMap[p].key # key
         /\ heap' = clone.heap
         /\ seenMap' = Append(seenMap, [key |-> key, addr |-> clone.addr])
  /\ heapPos' = heapPos + 1
  /\ UNCHANGED <<risVars, engineVars, blockVars, pc, heapRefs, given, returned, decodeVars, fileVars, trimVars, teiVars,
                 pdfVars, batchVars, convVars, citeVars, docxVars, keyVars, normVars,
                 pipeVars>>

\* deduplicateItems, loop body, seen.has(key): mergeItems(existing, ref.item)
\* writes the properties into the object the Map holds
HeapDuplicate ==
  /\ pc = "dedupe"
  /\ heapPos <= Len(heapRefs)
  /\ LET key == GenerateDedupeKey(heap[heapRefs[heapPos].item])
     IN  \E p \in 1..Len(seenMap) :
           /\ seenMap[p].key = key
           /\ heap' = [heap EXCEPT ![seenMap[p].addr] =
                         MergeItems(@, heap[heapRefs[heapPos].item])]
  /\ heapPos' = heapPos + 1
  /\ UNCHANGED <<risVars, engineVars, blockVars, pc, heapRefs, given, seenMap, returned, decodeVars, fileVars, trimVars,
                 teiVars, pdfVars, batchVars, convVars, citeVars, docxVars, keyVars,
                 normVars, pipeVars>>

\* after the loop: Array.from(seen.values()), unique.map(trimItem),
\* sortItems(trimmed)
HeapReturn ==
  /\ pc = "dedupe"
  /\ heapPos > Len(heapRefs)
  /\ LET values == [p \in 1..Len(seenMap) |-> seenMap[p].addr]
         h == TrimAll(heap, values)
         trimmed == [p \in 1..Len(values) |-> Len(heap) + p]
     IN  /\ heap' = h
         /\ returned' = PlaceOf(SortItems([p \in 1..Len(trimmed) |-> h[trimmed[p]]]),
                                trimmed, h)
  /\ pc' = "done"
  /\ UNCHANGED <<risVars, engineVars, blockVars, heapRefs, given, heapPos, seenMap, decodeVars, fileVars, trimVars,
                 teiVars, pdfVars, batchVars, convVars, citeVars, docxVars, keyVars,
                 normVars, pipeVars>>

NextHeap ==
  \/ HeapFirstSeen
  \/ HeapDuplicate
  \/ HeapReturn

SpecHeap == InitHeap /\ [][NextHeap]_vars

\* C22: during and after deduplicateItems and normalizeRefs every ref of the
\* argument holds the item object it held, and that object has exactly the
\* fields and values it had at the call; merging writes to the copy made of
\* the first-seen record only.
C22_InputUnchanged ==
  /\ Len(heapRefs) = Len(given)
  /\ \A i \in 1..Len(heapRefs) :
       /\ heapRefs[i] = [item |-> i, source |-> "docx-citation"]
       /\ heap[i] = given[i]
  /\ \A p \in 1..Len(seenMap) : seenMap[p].addr > Len(given)

\* witness of C22: the call has ended after a merge that filled a field of
\* the copy of the first record
C22_Witness ==
  /\ pc = "done"
  /\ Len(heapRefs) = 2
  /\ Len(seenMap) = 1
  /\ heap[seenMap[1].addr] # given[1]
  /\ heap[1] = given[1]

(***************************************************************************)
(* Specification SpecBlocks: extractJsonBlocks, one turn of its while loop *)
(* per step (docx.ts 186-209)                                              *)
(***************************************************************************)
MaxSegments == 4

\* the pieces an instruction text is made of
BlockSegments ==
  { ADDIN \o ZOTERO_ITEM,
    ADDIN \o CSL_CITATION,
    <<"{", "}">>,
    <<"{", "\"", "a", "\"", ":", "{", "}", "}", " ">>,
    \* an object never closed
    <<"{", "\"", "a", "\"", ":">>,
    \* an object with a marker inside a string value
    <<"{", "\"", "t", "\"", ":", "\"">> \o ADDIN \o ZOTERO_ITEM \o <<"\"", "}">>,
    <<"x", " ">> }

BlockTexts == { Join(l) : l \in UNION { [1..n -> BlockSegments] : n \in 0..MaxSegments } }

\* lastIndex after a match that gave no block, were the loop to end there
StopAfterMiss(text, startSearch) == Len(text) + 1

\* lastIndex after a match that gave no block: `continue`, or the end of the
\* loop body, leaves it behind the match
AfterMiss(text, startSearch) == startSearch

InitBlocks ==
  /\ pc = "exec"
  /\ RisIdle
  /\ EngineIdle
  /\ HeapIdle
  /\ DecodeIdle
  /\ FileIdle
  /\ TrimIdle
  /\ TeiIdle
  /\ PdfIdle
  /\ BatchIdle
  /\ ConvIdle
  /\ CiteIdle
  /\ DocxIdle
  /\ KeyIdle
  /\ NormIdle
  /\ PipeIdle
  /\ jsonText \in BlockTexts
  /\ execIndex = 1
  /\ blockSpans = <<>>

\* a match with no `{` behind it: continue
MatchWithoutBrace ==
  /\ pc = "exec"
  /\ NextMatch(jsonText, execIndex) # 0
  /\ LET m == NextMatch(jsonText, execIndex)
         startSearch == m + MatchLen(jsonText, m)
     IN  /\ IndexOf(jsonText, "{", startSearch) = 0
         /\ execIndex' = AfterMiss(jsonText, startSearch)
  /\ UNCHANGED <<risVars, engineVars, pc, jsonText, blockSpans, heapVars, decodeVars, fileVars, trimVars,
                 teiVars, pdfVars, batchVars, convVars, citeVars, docxVars, keyVars,
                 normVars, pipeVars>>

\* a match whose `{` is never balanced: jsonEnd === -1
MatchUnbalanced ==
  /\ pc = "exec"
  /\ NextMatch(jsonText, execIndex) # 0
  /\ LET m == NextMatch(jsonText, execIndex)
         startSearch == m + MatchLen(jsonText, m)
         jsonStart == IndexOf(jsonText, "{", startSearch)
     IN  /\ jsonStart # 0
         /\ FindBalancedBrace(jsonText, jsonStart) = 0
         /\ execIndex' = AfterMiss(jsonText, startSearch)
  /\ UNCHANGED <<risVars, engineVars, pc, jsonText, blockSpans, heapVars, decodeVars, fileVars, trimVars,
                 teiVars, pdfVars, batchVars, convVars, citeVars, docxVars, keyVars,
                 normVars, pipeVars>>

\* a match with a balanced object: blocks.push(text.slice(jsonStart, jsonEnd + 1))
MatchPushesBlock ==
  /\ pc = "exec"
  /\ NextMatch(jsonText, execIndex) # 0
  /\ LET m == NextMatch(jsonText, execIndex)
         startSearch == m + MatchLen(jsonText, m)
         jsonStart == IndexOf(jsonText, "{", startSearch)
         jsonEnd == FindBalancedBrace(jsonText, jsonStart)
     IN  /\ jsonStart # 0
         /\ jsonEnd # 0
         /\ blockSpans' = Append(blockSpans, [start |-> jsonStart, end |-> jsonEnd])
         /\ execIndex' = startSearch
  /\ UNCHANGED <<risVars, engineVars, pc, jsonText, heapVars, decodeVars, fileVars, trimVars, teiVars, pdfVars,
                 batchVars, convVars, citeVars, docxVars, keyVars, normVars, pipeVars>>

\* exec gives null: return blocks
NoMoreMatches ==
  /\ pc = "exec"
  /\ NextMatch(jsonText, execIndex) = 0
  /\ pc' = "blocks"
  /\ UNCHANGED <<risVars, engineVars, blockVars, heapVars, decodeVars, fileVars, trimVars, teiVars, pdfVars,
                 batchVars, convVars, citeVars, docxVars, keyVars, normVars, pipeVars>>

NextBlocks ==
  \/ MatchWithoutBrace
  \/ MatchUnbalanced
  \/ MatchPushesBlock
  \/ NoMoreMatches

SpecBlocks == InitBlocks /\ [][NextBlocks]_vars

\* the blocks returned
BlocksReturned ==
  [k \in 1..Len(blockSpans) |-> SubSeq(jsonText, blockSpans[k].start, blockSpans[k].end)]

\* the positions of the marker occurrences of the text
MarkerPositions == { i \in 1..Len(jsonText) : MatchLen(jsonText, i) > 0 }

\* the first `{` behind the marker at position m, 0 when there is none
BraceBehind(m) == IndexOf(jsonText, "{", m + MatchLen(jsonText, m))

\* the marker at position m has a `{` behind it that is balanced
HasBalancedObject(m) ==
  /\ BraceBehind(m) # 0
  /\ FindBalancedBrace(jsonText, BraceBehind(m)) # 0

\* the k-th smallest element of a set of numbers
RECURSIVE NthOf(_, _)
NthOf(set, k) == IF k = 1 THEN SetMin(set) ELSE NthOf(set \ {SetMin(set)}, k - 1)

\* C23: a marker with no `{` behind it gives no block, a marker whose `{` is
\* never balanced gives no block, and the blocks returned are those of the
\* other markers, one per marker that has a balanced object, in the order of
\* the markers.
C23_OtherBlocksKept ==
  pc = "blocks" =>
    LET yielding == { m \in MarkerPositions : HasBalancedObject(m) }
    IN  /\ Len(blockSpans) = Cardinality(yielding)
        /\ \A k \in 1..Len(blockSpans) :
             LET m == NthOf(yielding, k)
             IN  /\ blockSpans[k].start = BraceBehind(m)
                 /\ blockSpans[k].end = FindBalancedBrace(jsonText, BraceBehind(m))
        /\ BlocksReturned = ExtractJsonBlocks(jsonText)

\* witness of C23: the first marker's object is never closed, a later marker
\* has a balanced object, and one block is returned
C23_Witness ==
  /\ pc = "blocks"
  /\ MatchLen(jsonText, 1) > 0
  /\ ~HasBalancedObject(1)
  /\ BraceBehind(1) # 0
  /\ Len(blockSpans) = 1

\* C29: the blocks obtained from distinct marker occurrences start at
\* distinct offsets of the text, so that no JSON span is extracted twice.
C29_DistinctOffsets ==
  pc = "blocks" =>
    \A j, k \in 1..Len(blockSpans) : j # k => blockSpans[j].start # blockSpans[k].start

\* C29, as far as it holds: the offsets of the blocks never decrease
C29_OffsetsNeverDecrease ==
  pc = "blocks" =>
    \A k \in 1..(Len(blockSpans) - 1) : blockSpans[k].start <= blockSpans[k + 1].start

(***************************************************************************)
(* Specification SpecRis: generateRisEntry on a record with a page value   *)
(* (README.md 697-751)                                                     *)
(***************************************************************************)
MaxPageLen == 5

\* s.split(ch): the pieces between the occurrences of ch
RECURSIVE Split(_, _)
Split(s, ch) ==
  LET h == IndexOf(s, ch, 1) IN
  IF h = 0 THEN << s >>
  ELSE << SubSeq(s, 1, h - 1) >> \o Split(SubSeq(s, h + 1, Len(s)), ch)

Line(tag, value) == [tag |-> tag, value |-> value]

\* generateRisEntry: the lines written for item.page
PageLines(item) ==
  IF ~Truthy(Get(item, "page")) THEN <<>>
  ELSE LET parts == Split(item["page"].s, "-")
           sp == parts[1]
           ep == IF Len(parts) >= 2 THEN parts[2] ELSE <<>>
       IN  (IF sp # <<>> THEN << Line("SP", Trim(sp)) >> ELSE <<>>)
           \o (IF ep # <<>> THEN << Line("EP", Trim(ep)) >> ELSE <<>>)

\* generateRisEntry(item) for a book with at most a page value
GenerateRisEntry(item) ==
  << Line("TY", <<"B", "O", "O", "K">>) >> \o PageLines(item) \o << Line("ER", <<>>) >>

PageChars == {"1", "5", "-", " "}
Pages == UNION { [1..n -> PageChars] : n \in 0..MaxPageLen }

InitRis ==
  /\ pc = "entry"
  /\ EngineIdle
  /\ BlockIdle
  /\ HeapIdle
  /\ DecodeIdle
  /\ FileIdle
  /\ TrimIdle
  /\ TeiIdle
  /\ PdfIdle
  /\ BatchIdle
  /\ ConvIdle
  /\ CiteIdle
  /\ DocxIdle
  /\ KeyIdle
  /\ NormIdle
  /\ PipeIdle
  /\ risItem \in { MkItem([type |-> BookType, page |-> p]) :
                     p \in {Undef} \cup { Str(x) : x \in Pages } }
  /\ risLines = <<>>

\* risLines = generateRisEntry(risItem)
GenerateRisEntryCall ==
  /\ pc = "entry"
  /\ risLines' = GenerateRisEntry(risItem)
  /\ pc' = "written"
  /\ UNCHANGED <<risItem, engineVars, blockVars, heapVars, decodeVars, fileVars, trimVars,
                 teiVars, pdfVars, batchVars, convVars, citeVars, docxVars, keyVars,
                 normVars, pipeVars>>

NextRis == GenerateRisEntryCall

SpecRis == InitRis /\ [][NextRis]_vars

\* the values of the lines with the given tag
ValuesOf(tag) ==
  LET hits == SelectSeq(risLines, LAMBDA l : l.tag = tag)
  IN  [i \in 1..Len(hits) |-> hits[i].value]

\* the page value of the record, empty when it has none
PageOf == IF "page" \in DOMAIN risItem THEN risItem["page"].s ELSE <<>>

\* the text before the first hyphen of the page value and the text after it
BeforeHyphen == SubSeq(PageOf, 1, IndexOf(PageOf, "-", 1) - 1)
AfterHyphen == SubSeq(PageOf, IndexOf(PageOf, "-", 1) + 1, Len(PageOf))

BothSides == IndexOf(PageOf, "-", 1) # 0 /\ BeforeHyphen # <<>> /\ AfterHyphen # <<>>

\* C26: a page value with text on both sides of its first hyphen gives an SP
\* line with everything before that hyphen and an EP line with everything
\* after it (surrounding whitespace aside); a page value with one side only
\* gives no SP/EP pair.
C26_SplitOnFirstHyphen ==
  pc = "written" =>
    IF BothSides
      THEN /\ ValuesOf("SP") = << Trim(BeforeHyphen) >>
           /\ ValuesOf("EP") = << Trim(AfterHyphen) >>
      ELSE ValuesOf("SP") = <<>> \/ ValuesOf("EP") = <<>>

\* C26, for page values with at most one hyphen
C26_SplitOnOnlyHyphen ==
  (pc = "written" /\ Len(Split(PageOf, "-")) <= 2) =>
    IF BothSides
      THEN /\ ValuesOf("SP") = << Trim(BeforeHyphen) >>
           /\ ValuesOf("EP") = << Trim(AfterHyphen) >>
      ELSE ValuesOf("SP") = <<>> \/ ValuesOf("EP") = <<>>

====
